---- MODULE Spec2Model ----
(***************************************************************************)
(* A model of the retrieval core of the finstat backend: the hybrid search *)
(* engine (BM25 scoring, metadata boosting, score fusion), the context     *)
(* assembly of the chat endpoints and the two-stage chat-all handler.      *)
(*                                                                         *)
(* Conventions.  A Python str is a sequence of one-character strings.  A   *)
(* Python dict is a function whose DOMAIN is its key set, so that          *)
(* d.get(k, default) can tell a missing key from a stored value.  A float  *)
(* score is a fixed-point integer counted in 1/Scale; a fused score, the   *)
(* sum of weight * score, is counted in 1/(Scale * WeightScale).           *)
(***************************************************************************)
EXTENDS Integers, Sequences, FiniteSets, TLC

VARIABLES
    pc,                 \* position of the operation under way
    request,            \* arguments of the operation under way
    vector_results,     \* candidate list handed to the scorers ("documents")
    query_terms,        \* expanded_terms handed to the scorers
    keyword_scores,     \* result of _bm25_search
    metadata_scores,    \* result of _metadata_boost
    search_results,     \* list of SearchResult (fused, ranked)
    context,            \* result of the context assembly
    collection,         \* the chunks of the vector store's collection
    uploads,            \* file ids that have a file in UPLOAD_DIR
    conversation_store, \* chat.py's module-level dict
    llm_calls,          \* LLM calls issued by the request under way
    query_log,          \* records the request under way handed to the query logger
    response            \* outcome of the request under way

vars == <<pc, request, vector_results, query_terms, keyword_scores,
          metadata_scores, search_results, context, collection, uploads,
          conversation_store, llm_calls, query_log, response>>

----------------------------------------------------------------------------
(* Fixed point and Python built-ins *)

\* One unit of a float score: 1.0 is Scale.
Scale == 1000

\* Fusion weights are kept in hundredths.
WeightScale == 100

\* The empty dict {}
NoDict == <<>>

\* dict.get(key, default)
Get(d, k, default) == IF k \in DOMAIN d THEN d[k] ELSE default

Min(a, b) == IF a <= b THEN a ELSE b

Range(s) == {s[i] : i \in 1..Len(s)}

RECURSIVE SumSeq(_)
SumSeq(s) == IF s = <<>> THEN 0 ELSE Head(s) + SumSeq(Tail(s))

\* All lists over S of length lo..hi
SeqsOf(S, lo, hi) == UNION {[1..n -> S] : n \in lo..hi}

UpperLetters ==
    <<"A", "B", "C", "D", "E", "F", "G", "H", "I", "J", "K", "L", "M",
      "N", "O", "P", "Q", "R", "S", "T", "U", "V", "W", "X", "Y", "Z">>

LowerLetters ==
    <<"a", "b", "c", "d", "e", "f", "g", "h", "i", "j", "k", "l", "m",
      "n", "o", "p", "q", "r", "s", "t", "u", "v", "w", "x", "y", "z">>

\* str.lower() on one character
LowerChar(c) ==
    IF \E i \in 1..Len(UpperLetters) : UpperLetters[i] = c
    THEN LowerLetters[CHOOSE i \in 1..Len(UpperLetters) : UpperLetters[i] = c]
    ELSE c

\* str.lower()
Lower(t) == [i \in 1..Len(t) |-> LowerChar(t[i])]

IsSpace(c) == c \in {" ", "\n", "\t"}

\* len(text.split()): the number of maximal runs of non-whitespace
WordCount(t) ==
    Cardinality({i \in 1..Len(t) :
                    /\ ~IsSpace(t[i])
                    /\ (i = 1 \/ IsSpace(t[i - 1]))})

\* sub in text
Contains(t, sub) ==
    \E i \in 0..(Len(t) - Len(sub)) : SubSeq(t, i + 1, i + Len(sub)) = sub

RECURSIVE CountFrom(_, _, _)
CountFrom(t, sub, i) ==
    IF i + Len(sub) - 1 > Len(t) THEN 0
    ELSE IF SubSeq(t, i, i + Len(sub) - 1) = sub
         THEN 1 + CountFrom(t, sub, i + Len(sub))
         ELSE CountFrom(t, sub, i + 1)

\* text.count(sub): non-overlapping occurrences; len(text) + 1 for sub = ""
Count(t, sub) == IF sub = <<>> THEN Len(t) + 1 ELSE CountFrom(t, sub, 1)

----------------------------------------------------------------------------
(* HybridSearchEngine._fuse_scores *)

\* HybridSearchEngine.__init__: the fusion weights, in 1/WeightScale
VECTOR_WEIGHT == 60
KEYWORD_WEIGHT == 30
METADATA_WEIGHT == 10

\* The fusion with the keyword and metadata weights exchanged
FinalScoreSwapped(vector_score, keyword_score, metadata_score) ==
    60 * vector_score + 10 * keyword_score + 30 * metadata_score

\* The weighted fusion of one candidate's three scores
FinalScore(vector_score, keyword_score, metadata_score) ==
    VECTOR_WEIGHT * vector_score
    + KEYWORD_WEIGHT * keyword_score
    + METADATA_WEIGHT * metadata_score

\* The SearchResult built for candidate idx (0-based, as enumerate gives it)
FuseOne(doc, idx, kw, md) ==
    LET vector_score == Get(doc, "score", 0)
        keyword_score == Get(kw, idx, 0)
        metadata_score == Get(md, idx, 0)
        metadata == Get(doc, "metadata", <<>>)
    IN  [text |-> doc.text,
         score |-> FinalScore(vector_score, keyword_score, metadata_score),
         vector_score |-> vector_score,
         keyword_score |-> keyword_score,
         metadata_score |-> metadata_score,
         chunk_index |-> Get(metadata, "chunk_index", 0),
         file_id |-> Get(metadata, "file_id", ""),
         metadata |-> metadata]

RECURSIVE InsertBeforeEqual(_, _)
InsertBeforeEqual(x, sorted) ==
    IF sorted = <<>> THEN <<x>>
    ELSE IF Head(sorted).score > x.score
         THEN <<Head(sorted)>> \o InsertBeforeEqual(x, Tail(sorted))
         ELSE <<x>> \o sorted

RECURSIVE SortFromUnstable(_, _, _)
SortFromUnstable(s, i, acc) ==
    IF i > Len(s) THEN acc
    ELSE SortFromUnstable(s, i + 1, InsertBeforeEqual(s[i], acc))

\* A descending sort that turns ties around, as sorted(...)[::-1] does
SortAscThenReverse(s) == SortFromUnstable(s, 1, <<>>)

RECURSIVE InsertDesc(_, _)
\* x put behind every element whose score is at least its own
InsertDesc(x, sorted) ==
    IF sorted = <<>> THEN <<x>>
    ELSE IF Head(sorted).score >= x.score
         THEN <<Head(sorted)>> \o InsertDesc(x, Tail(sorted))
         ELSE <<x>> \o sorted

RECURSIVE SortFrom(_, _, _)
SortFrom(s, i, acc) ==
    IF i > Len(s) THEN acc ELSE SortFrom(s, i + 1, InsertDesc(s[i], acc))

\* list.sort(key=lambda x: x.score, reverse=True): descending and stable
SortByScoreDesc(s) == SortFrom(s, 1, <<>>)

_fuse_scores(results, kw, md) ==
    SortByScoreDesc([i \in 1..Len(results) |-> FuseOne(results[i], i - 1, kw, md)])

----------------------------------------------------------------------------
(* HybridSearchEngine._bm25_search *)

\* HybridSearchEngine.__init__: k1 = 1.5 and b = 0.75, as fractions
K1 == [num |-> 3, den |-> 2]
B == [num |-> 3, den |-> 4]

\* math.log of the integers 1..12, in 1/Scale
LnTable == <<0, 693, 1099, 1386, 1609, 1792, 1946, 2079, 2197, 2303, 2398, 2485>>

\* math.log(num / den)
Log(num, den) == LnTable[num] - LnTable[den]

\* doc_lengths
DocLengths(documents) == [i \in 1..Len(documents) |-> WordCount(documents[i].text)]

\* df: the number of documents containing the term, case-insensitively
DocFreq(documents, term) ==
    Cardinality({i \in 1..Len(documents) :
                    Contains(Lower(documents[i].text), Lower(term))})

\* idf_scores[term_lower]: (N - df + 0.5) / (df + 0.5) + 1 = (2N + 2) / (2df + 1)
Idf(N, df) == IF df > 0 THEN Log(2 * N + 2, 2 * df + 1) ELSE 0

\* tf: occurrences of the lower-cased term in the lower-cased text
TermFreq(doc, term) == Count(Lower(doc.text), Lower(term))

\* doc_length / avgdl divides by zero: avgdl = 0 and some term has tf > 0
Bm25Raises(documents, terms) ==
    /\ documents # <<>>
    /\ SumSeq(DocLengths(documents)) = 0
    /\ \E i \in 1..Len(documents), j \in 1..Len(terms) :
          TermFreq(documents[i], terms[j]) > 0

\* numerator / denominator of one term with tf > 0, where avgdl = total / N:
\*   idf * tf * (k1 + 1) / (tf + k1 * (1 - b + b * doc_length / avgdl))
TermScore(idf, tf, doc_length, total, N) ==
    (idf * tf * (K1.num + K1.den) * B.den * total)
    \div (tf * K1.den * B.den * total
          + K1.num * ((B.den - B.num) * total + B.num * doc_length * N))

RECURSIVE DocScore(_, _, _, _)
\* The score of one document: the sum over query_terms[j..]
DocScore(documents, idx, terms, j) ==
    IF j > Len(terms) THEN 0
    ELSE LET tf == TermFreq(documents[idx], terms[j])
             N == Len(documents)
             rest == DocScore(documents, idx, terms, j + 1)
         IN  IF tf > 0
             THEN TermScore(Idf(N, DocFreq(documents, terms[j])), tf,
                            DocLengths(documents)[idx],
                            SumSeq(DocLengths(documents)), N) + rest
             ELSE rest

\* bm25_scores before the normalisation, keyed by 0-based index
RawBm25(documents, terms) ==
    [idx \in 0..(Len(documents) - 1) |-> DocScore(documents, idx + 1, terms, 1)]

\* max(bm25_scores.values()) if bm25_scores else 1
MaxScore(scores) ==
    IF DOMAIN scores = {} THEN Scale
    ELSE CHOOSE m \in {scores[k] : k \in DOMAIN scores} :
            \A k \in DOMAIN scores : scores[k] <= m

\* A normalisation that is left out
NormalizeSkipped(scores) == scores

\* A normalisation that maps an all-zero score map to ones
NormalizeZeroToOne(scores) ==
    IF MaxScore(scores) > 0
    THEN [k \in DOMAIN scores |-> (scores[k] * Scale) \div MaxScore(scores)]
    ELSE [k \in DOMAIN scores |-> Scale]

\* Normalize scores to [0, 1]
Normalize(scores) ==
    IF MaxScore(scores) > 0
    THEN [k \in DOMAIN scores |-> (scores[k] * Scale) \div MaxScore(scores)]
    ELSE scores

\* The map _bm25_search returns when it does not raise
_bm25_search(documents, terms) == Normalize(RawBm25(documents, terms))

----------------------------------------------------------------------------
(* HybridSearchEngine._metadata_boost *)

\* ['financial', 'statement', 'revenue', 'profit']
SectionKeywords ==
    {<<"f", "i", "n", "a", "n", "c", "i", "a", "l">>,
     <<"s", "t", "a", "t", "e", "m", "e", "n", "t">>,
     <<"r", "e", "v", "e", "n", "u", "e">>,
     <<"p", "r", "o", "f", "i", "t">>}

\* The filename loop without its break: 0.5 for every matching term
FilenameBonusPerTerm(filename, terms) ==
    (Scale \div 2)
    * Cardinality({j \in 1..Len(terms) : Contains(filename, Lower(terms[j]))})

\* Filename matching: 0.5 once, at the first query term found in the filename
FilenameBonus(filename, terms) ==
    IF \E j \in 1..Len(terms) : Contains(filename, Lower(terms[j]))
    THEN Scale \div 2
    ELSE 0

\* Section type boosting: 0.2 if a finance-signal word is in the section type
SectionBonus(section_type) ==
    IF \E keyword \in SectionKeywords : Contains(section_type, keyword)
    THEN Scale \div 5
    ELSE 0

\* Recency boost: (year - 2000) / 25.0 * 0.3, for an int year that is not 0
RecencyBonus(metadata) ==
    IF "year" \in DOMAIN metadata /\ metadata.year # 0
    THEN ((metadata.year - 2000) * 3 * Scale) \div (25 * 10)
    ELSE 0

\* The score of one document, capped at 1.0
MetadataScore(doc, terms) ==
    LET metadata == Get(doc, "metadata", <<>>)
        filename == Lower(Get(metadata, "filename", <<>>))
        section_type == Lower(Get(metadata, "section_type", <<>>))
    IN  Min(FilenameBonus(filename, terms) + SectionBonus(section_type)
            + RecencyBonus(metadata), Scale)

_metadata_boost(documents, terms) ==
    [idx \in 0..(Len(documents) - 1) |-> MetadataScore(documents[idx + 1], terms)]

----------------------------------------------------------------------------
(* VectorStore and HybridSearchEngine.search *)

StoredChunksOneBased(file_id, texts, extra) ==
    {[id |-> <<file_id, i>>,
      document |-> texts[i],
      metadata |-> extra @@ [file_id |-> file_id, chunk_index |-> i,
                             total_chunks |-> Len(texts)]] : i \in 1..Len(texts)}

\* The chunks add_document stores for file_id: chunk i of texts with the
\* metadata file_id, chunk_index, total_chunks and the caller's metadata
StoredChunks(file_id, texts, extra) ==
    {[id |-> <<file_id, i - 1>>,
      document |-> texts[i],
      metadata |-> extra @@ [file_id |-> file_id, chunk_index |-> i - 1,
                             total_chunks |-> Len(texts)]] : i \in 1..Len(texts)}

ScopeUnfiltered(chunks, file_ids) == chunks

\* collection.query(where={"file_id": {"$in": file_ids}}): no filter for an
\* empty or missing file_ids
Scope(chunks, file_ids) ==
    IF file_ids = <<>> THEN chunks
    ELSE {c \in chunks : c.metadata.file_id \in Range(file_ids)}

\* The orders in which the index may rank the chunks of S, nearest first
Rankings(S) ==
    {r \in [1..Cardinality(S) -> S] : \A i, j \in 1..Cardinality(S) : r[i] = r[j] => i = j}

\* The distance the index reports for the chunk of rank i
RankDistance(i) == i * (Scale \div 10)

\* VectorStore.search: the top_k nearest chunks of the scope, formatted
VectorStoreSearch(ranking, top_k) ==
    [i \in 1..Min(top_k, Len(ranking)) |->
        [text |-> ranking[i].document,
         metadata |-> ranking[i].metadata,
         distance |-> RankDistance(i),
         id |-> ranking[i].id]]

\* HybridSearchEngine._vector_search
_vector_search(ranking, top_k) == VectorStoreSearch(ranking, top_k)

_rerank_reversed(query, results) ==
    [i \in 1..Len(results) |-> results[Len(results) + 1 - i]]

\* HybridSearchEngine._rerank: the placeholder returns the results as they are
_rerank(query, results) == results

TruncateNone(results, top_k) == results

\* hybrid_results[:top_k]
Truncate(results, top_k) == SubSeq(results, 1, Min(top_k, Len(results)))

\* HybridSearchEngine.search over the ranking the index gives for the query;
\* raised tells that _bm25_search raised ZeroDivisionError
HybridSearch(query, expanded_terms, ranking, top_k, use_reranking) ==
    LET vr == _vector_search(ranking, top_k * 2)
        raised == vr # <<>> /\ Bm25Raises(vr, expanded_terms)
        kw == IF vr = <<>> \/ raised THEN NoDict ELSE _bm25_search(vr, expanded_terms)
        md == IF vr = <<>> \/ raised THEN NoDict ELSE _metadata_boost(vr, expanded_terms)
        fused == IF vr = <<>> \/ raised THEN <<>> ELSE _fuse_scores(vr, kw, md)
        hybrid == IF use_reranking THEN _rerank(query, fused) ELSE fused
    IN  [raised |-> raised,
         vector_results |-> vr,
         keyword_scores |-> kw,
         metadata_scores |-> md,
         results |-> Truncate(hybrid, top_k)]

----------------------------------------------------------------------------
(* chat.py: _find_relevant_context_optimized, the context assembly *)

RECURSIVE Join(_, _)
\* sep.join(chunks)
Join(chunks, sep) ==
    IF chunks = <<>> THEN <<>>
    ELSE IF Len(chunks) = 1 THEN chunks[1]
         ELSE chunks[1] \o sep \o Join(Tail(chunks), sep)

\* text[:n] for n >= 0
Prefix(text, n) == SubSeq(text, 1, Min(n, Len(text)))

RECURSIVE CombineFromSkipping(_, _, _, _, _)
CombineFromSkipping(results, i, combined_chunks, total_chars, max_chars) ==
    IF i > Len(results)
    THEN [combined_chunks |-> combined_chunks, total_chars |-> total_chars]
    ELSE IF total_chars + Len(results[i].text) <= max_chars
         THEN CombineFromSkipping(results, i + 1,
                                  Append(combined_chunks, results[i].text),
                                  total_chars + Len(results[i].text), max_chars)
         ELSE CombineFromSkipping(results, i + 1, combined_chunks, total_chars,
                                  max_chars)

RECURSIVE CombineFrom(_, _, _, _, _)
\* The loop over search_results from result i on: whole texts while they fit,
\* then a prefix of the first one that does not, if more than 100 characters
\* remain, and nothing after it.
CombineFrom(results, i, combined_chunks, total_chars, max_chars) ==
    IF i > Len(results)
    THEN [combined_chunks |-> combined_chunks, total_chars |-> total_chars]
    ELSE IF total_chars + Len(results[i].text) <= max_chars
         THEN CombineFrom(results, i + 1, Append(combined_chunks, results[i].text),
                          total_chars + Len(results[i].text), max_chars)
         ELSE LET remaining == max_chars - total_chars IN
              [combined_chunks |->
                   IF remaining > 100
                   THEN Append(combined_chunks, Prefix(results[i].text, remaining))
                   ELSE combined_chunks,
               total_chars |-> total_chars]

\* What the function keeps of the loop and the string it returns
CombineContext(results, max_chars) ==
    LET c == CombineFrom(results, 1, <<>>, 0, max_chars) IN
    [combined_chunks |-> c.combined_chunks,
     total_chars |-> c.total_chars,
     text |-> Join(c.combined_chunks, <<"\n", "\n">>)]

----------------------------------------------------------------------------
(* VectorStore: _chunk_text, add_document, remove_document *)

\* _chunk_text: chunk_size, overlap and max_chunk_len
ChunkSize == 500
Overlap == 50
MaxChunkLen == 1000

\* add_document: texts of more than 5000 characters are not stored
MaxStoredLen == 5000

\* str.lstrip(): the text from its first character that is not white space
LStrip(t) ==
    IF \A i \in 1..Len(t) : IsSpace(t[i]) THEN <<>>
    ELSE LET first == CHOOSE i \in 1..Len(t) :
                          ~IsSpace(t[i]) /\ \A j \in 1..(i - 1) : IsSpace(t[j])
         IN  SubSeq(t, first, Len(t))

\* str.rstrip(): the text up to its last character that is not white space
RStrip(t) ==
    IF \A i \in 1..Len(t) : IsSpace(t[i]) THEN <<>>
    ELSE LET last == CHOOSE i \in 1..Len(t) :
                         ~IsSpace(t[i]) /\ \A j \in (i + 1)..Len(t) : IsSpace(t[j])
         IN  SubSeq(t, 1, last)

\* str.strip()
Strip(t) == RStrip(LStrip(t))

RECURSIVE SplitFrom(_, _, _)
\* text.split(sep) of the text from position start on: the pieces between
\* the occurrences of sep, taken from left to right without overlap
SplitFrom(t, sep, start) ==
    LET hits == {i \in start..(Len(t) - Len(sep) + 1) :
                    SubSeq(t, i, i + Len(sep) - 1) = sep}
    IN  IF hits = {} THEN <<SubSeq(t, start, Len(t))>>
        ELSE LET i == CHOOSE h \in hits : \A g \in hits : h <= g
             IN  <<SubSeq(t, start, i - 1)>> \o SplitFrom(t, sep, i + Len(sep))

\* text.split('\n\n')
SplitParagraphs(t) == SplitFrom(t, <<"\n", "\n">>, 1)

\* current_chunk[-overlap:]
Suffix(t, n) == SubSeq(t, Len(t) - n + 1, Len(t))

RECURSIVE ChunkFrom(_, _, _, _)
\* The loop over the paragraphs from paragraph i on, and the final flush
ChunkFrom(paragraphs, i, chunks, current_chunk) ==
    IF i > Len(paragraphs)
    THEN IF Strip(current_chunk) # <<>>
         THEN Append(chunks, Strip(current_chunk))
         ELSE chunks
    ELSE LET paragraph == Prefix(paragraphs[i], MaxChunkLen)
             full == /\ Len(current_chunk) + Len(paragraph) > ChunkSize
                     /\ current_chunk # <<>>
             chunks1 == IF full THEN Append(chunks, Strip(current_chunk)) ELSE chunks
             current1 == IF full
                         THEN IF Len(current_chunk) > Overlap
                              THEN Suffix(current_chunk, Overlap)
                              ELSE <<>>
                         ELSE current_chunk
         IN  ChunkFrom(paragraphs, i + 1, chunks1,
                       current1 \o paragraph \o <<"\n", "\n">>)

\* [c[:max_chunk_len] for c in chunks if c.strip()]
KeepNonBlank(chunks) ==
    LET kept == {i \in 1..Len(chunks) : Strip(chunks[i]) # <<>>}
        nth(k) == CHOOSE i \in kept : Cardinality({j \in kept : j <= i}) = k
    IN  [k \in 1..Cardinality(kept) |-> Prefix(chunks[nth(k)], MaxChunkLen)]

\* VectorStore._chunk_text
_chunk_text(text) == KeepNonBlank(ChunkFrom(SplitParagraphs(text), 1, <<>>, <<>>))

\* VectorStore.remove_document
remove_document(chunks, file_id) == {c \in chunks : c.metadata.file_id # file_id}

\* VectorStore.add_document after its remove_document: the chunks of the text
\* numbered and tagged, those of at most 5000 characters added in one
\* collection.add
InsertChunks(chunks, file_id, text, metadata) ==
    chunks \cup {c \in StoredChunks(file_id, _chunk_text(text), metadata) :
                    Len(c.document) <= MaxStoredLen}

\* VectorStore.add_document: the old chunks of file_id removed, the new ones
\* (those of at most 5000 characters) added; nothing added for a text that
\* gives no chunk
add_document(chunks, file_id, text, metadata) ==
    InsertChunks(remove_document(chunks, file_id), file_id, text, metadata)

\* collection.get(where={"file_id": file_id})
ChunksOf(chunks, file_id) == {c \in chunks : c.metadata.file_id = file_id}

RECURSIVE InChunkOrder(_)
\* The documents of a set of chunks, sorted by chunk_index
InChunkOrder(S) ==
    IF S = {} THEN <<>>
    ELSE LET first == CHOOSE c \in S :
                         \A d \in S : c.metadata.chunk_index <= d.metadata.chunk_index
         IN  <<first.document>> \o InChunkOrder(S \ {first})

\* The document text rebuilt from the stored chunks
Reconstruct(chunks, file_id) == Join(InChunkOrder(ChunksOf(chunks, file_id)), <<"\n", "\n">>)

----------------------------------------------------------------------------
(* Values of the variables an operation does not use *)

IdleScorers ==
    /\ query_terms = <<>>
    /\ keyword_scores = NoDict
    /\ metadata_scores = NoDict

IdleContext == context = NoDict

IdleStore ==
    /\ collection = {}
    /\ uploads = NoDict
    /\ conversation_store = NoDict
    /\ llm_calls = <<>>
    /\ query_log = <<>>
    /\ response = NoDict

storeVars == <<collection, uploads, conversation_store, llm_calls, query_log,
              response>>

----------------------------------------------------------------------------
(* _fuse_scores applied to every candidate list and pair of score maps *)

MaxCands == 3

VecScorePool == {Scale \div 2, Scale}
KwScorePool == {Scale}
MdScorePool == {Scale}

\* Candidate i of n: a chunk of one document; the index returns the chunks
\* in ascending or in descending chunk order.
FuseCandidate(i, n, order, hasScore, sc) ==
    LET base == [text |-> <<"t">>,
                 metadata |-> [file_id |-> "f1",
                               chunk_index |-> IF order = "asc" THEN i - 1 ELSE n - i]]
    IN  IF i \in hasScore THEN base @@ [score |-> sc[i]] ELSE base

Init_Fuse ==
    /\ pc = "fuse_ready"
    /\ request = NoDict
    /\ \E n \in 0..MaxCands :
         /\ \E order \in {"asc", "desc"}, hasScore \in SUBSET (1..n) :
              \E sc \in [hasScore -> VecScorePool] :
                vector_results =
                    [i \in 1..n |-> FuseCandidate(i, n, order, hasScore, sc)]
         /\ \E kd \in SUBSET (0..(n - 1)) : keyword_scores \in [kd -> KwScorePool]
         /\ \E md \in SUBSET (0..(n - 1)) : metadata_scores \in [md -> MdScorePool]
    /\ query_terms = <<>>
    /\ search_results = <<>>
    /\ IdleContext
    /\ IdleStore

Fuse ==
    /\ pc = "fuse_ready"
    /\ search_results' = _fuse_scores(vector_results, keyword_scores, metadata_scores)
    /\ pc' = "fuse_done"
    /\ UNCHANGED <<request, vector_results, query_terms, keyword_scores,
                   metadata_scores, context>>
    /\ UNCHANGED storeVars

Next_Fuse == Fuse

SpecFuse == Init_Fuse /\ [][Next_Fuse]_vars

\* Position in the candidate list of the candidate a result was built from
Origin(r) ==
    CHOOSE i \in 1..Len(vector_results) :
        vector_results[i].metadata.chunk_index = r.chunk_index

\* C1: the list returned by _fuse_scores holds one result per candidate, is
\* sorted non-increasing by final score, and results of equal final score
\* keep the relative order their candidates had in the candidate list.
C1_FusedSortedStable ==
    pc = "fuse_done" =>
        /\ Len(search_results) = Len(vector_results)
        /\ \A i, j \in 1..Len(search_results) :
             i < j =>
                \/ search_results[i].score > search_results[j].score
                \/ /\ search_results[i].score = search_results[j].score
                   /\ Origin(search_results[i]) < Origin(search_results[j])

\* A fused list with a tie between two candidates returned in descending
\* chunk order, behind a result of strictly higher score.
C1_Witness ==
    /\ pc = "fuse_done"
    /\ Len(search_results) = 3
    /\ search_results[1].score > search_results[2].score
    /\ search_results[2].score = search_results[3].score
    /\ search_results[2].chunk_index > search_results[3].chunk_index
    /\ search_results[2].vector_score # search_results[3].vector_score

\* C2: every fused SearchResult has score = 0.60 * vector_score
\* + 0.30 * keyword_score + 0.10 * metadata_score over its own components.
C2_FinalIsWeightedSum ==
    pc = "fuse_done" =>
        \A i \in 1..Len(search_results) :
            LET r == search_results[i] IN
            r.score = 60 * r.vector_score + 30 * r.keyword_score
                      + 10 * r.metadata_score

\* A fused result whose three components are all non-zero and differ.
C2_Witness ==
    /\ pc = "fuse_done"
    /\ \E i \in 1..Len(search_results) :
         /\ search_results[i].vector_score = Scale \div 2
         /\ search_results[i].keyword_score = Scale
         /\ search_results[i].metadata_score = 0
         /\ search_results[i].score = 60 * Scale

----------------------------------------------------------------------------
(* _bm25_search applied to candidate sets and lists of query terms *)

MaxDocs == 2
MaxTerms == 2

\* "", " ", "a", "Aa", "b b"
TextPool == {<<>>, <<" ">>, <<"a">>, <<"A", "a">>, <<"b", " ", "b">>}

\* "a", "B", "c" (in no text), ""
TermPool == {<<"a">>, <<"B">>, <<"c">>, <<>>}

Init_BM25 ==
    /\ pc = "bm25_ready"
    /\ request = NoDict
    /\ \E texts \in SeqsOf(TextPool, 0, MaxDocs) :
          vector_results = [i \in 1..Len(texts) |-> [text |-> texts[i]]]
    /\ query_terms \in SeqsOf(TermPool, 0, MaxTerms)
    /\ keyword_scores = NoDict
    /\ metadata_scores = NoDict
    /\ search_results = <<>>
    /\ IdleContext
    /\ IdleStore

Bm25Search ==
    /\ pc = "bm25_ready"
    /\ IF Bm25Raises(vector_results, query_terms)
       THEN /\ pc' = "bm25_raised"
            /\ keyword_scores' = NoDict
       ELSE /\ pc' = "bm25_done"
            /\ keyword_scores' = _bm25_search(vector_results, query_terms)
    /\ UNCHANGED <<request, vector_results, query_terms, metadata_scores,
                   search_results, context>>
    /\ UNCHANGED storeVars

Next_BM25 == Bm25Search

SpecBM25 == Init_BM25 /\ [][Next_BM25]_vars

\* C4: for a non-empty candidate set, the map returned by _bm25_search has
\* one value per candidate and each value lies in [0, 1].
C4_Bm25InUnitInterval ==
    (pc = "bm25_done" /\ vector_results # <<>>) =>
        /\ DOMAIN keyword_scores = 0..(Len(vector_results) - 1)
        /\ \A k \in DOMAIN keyword_scores :
              keyword_scores[k] >= 0 /\ keyword_scores[k] <= Scale

\* A returned map whose raw maximum exceeded 1 and which holds the values
\* 1 and a value strictly between 0 and 1.
C4_Witness ==
    /\ pc = "bm25_done"
    /\ Len(vector_results) = 2
    /\ MaxScore(RawBm25(vector_results, query_terms)) > Scale
    /\ \E k \in DOMAIN keyword_scores : keyword_scores[k] = Scale
    /\ \E k \in DOMAIN keyword_scores :
          keyword_scores[k] > 0 /\ keyword_scores[k] < Scale

\* The term occurs in no candidate chunk (document frequency 0)
OccursNowhere(term) ==
    \A i \in 1..Len(vector_results) :
        ~Contains(Lower(vector_results[i].text), Lower(term))

\* terms with term put at position p (1..Len(terms) + 1)
InsertAt(terms, p, term) ==
    SubSeq(terms, 1, p - 1) \o <<term>> \o SubSeq(terms, p, Len(terms))

RECURSIVE WithoutUnseen(_)
\* terms without the terms of document frequency 0
WithoutUnseen(terms) ==
    IF terms = <<>> THEN <<>>
    ELSE IF OccursNowhere(Head(terms)) THEN WithoutUnseen(Tail(terms))
         ELSE <<Head(terms)>> \o WithoutUnseen(Tail(terms))

\* C5: a query term of document frequency 0 adds nothing: putting such a
\* term anywhere into query_terms, or removing all such terms, leaves the
\* returned map unchanged; and if every query term has document frequency 0
\* (or there is none) every chunk scores 0.
C5_UnseenTermAddsNothing ==
    pc = "bm25_done" =>
        /\ \A term \in TermPool :
              OccursNowhere(term) =>
                 \A p \in 1..(Len(query_terms) + 1) :
                    /\ ~Bm25Raises(vector_results, InsertAt(query_terms, p, term))
                    /\ _bm25_search(vector_results, InsertAt(query_terms, p, term))
                          = keyword_scores
        /\ ~Bm25Raises(vector_results, WithoutUnseen(query_terms))
        /\ _bm25_search(vector_results, WithoutUnseen(query_terms)) = keyword_scores
        /\ (\A j \in 1..Len(query_terms) : OccursNowhere(query_terms[j])) =>
              \A k \in DOMAIN keyword_scores : keyword_scores[k] = 0

\* Two candidates, a query of an unseen term and a seen one: the seen term
\* alone decides the scores, which are not all 0.
C5_Witness ==
    /\ pc = "bm25_done"
    /\ Len(vector_results) = 2
    /\ Len(query_terms) = 2
    /\ OccursNowhere(query_terms[1])
    /\ ~OccursNowhere(query_terms[2])
    /\ WithoutUnseen(query_terms) = <<query_terms[2]>>
    /\ \E k \in DOMAIN keyword_scores : keyword_scores[k] > 0

\* C18: _bm25_search raises no arithmetic fault on degenerate input: for an
\* empty candidate set and for candidate sets with chunks of zero words, with
\* any list of query terms, it returns a score for every chunk.
C18_Bm25NeverRaises ==
    pc # "bm25_ready" =>
        /\ pc = "bm25_done"
        /\ DOMAIN keyword_scores = 0..(Len(vector_results) - 1)

----------------------------------------------------------------------------
(* _metadata_boost applied to candidate sets, metadata bags and query terms *)

MaxMetaDocs == 1
MaxMetaTerms == 2

\* "a", "Ab"
FilenamePool == {<<"a">>, <<"A", "b">>}

\* "Financial Statement", "notes"
SectionPool ==
    {<<"F", "i", "n", "a", "n", "c", "i", "a", "l", " ",
       "S", "t", "a", "t", "e", "m", "e", "n", "t">>,
     <<"n", "o", "t", "e", "s">>}

YearPool == {0, 1990, 2024, 2100}

\* "a", "B", "c"
MetaTermPool == {<<"a">>, <<"B">>, <<"c">>}

\* The dicts that hold key with a value of S, or do not hold it
OptField(key, S) == {NoDict} \cup {[k \in {key} |-> v] : v \in S}

\* Every metadata bag: each of filename, section_type and year set or missing
MetadataBags ==
    {f @@ st @@ y : f \in OptField("filename", FilenamePool),
                    st \in OptField("section_type", SectionPool),
                    y \in OptField("year", YearPool)}

Init_Meta ==
    /\ pc = "meta_ready"
    /\ request = NoDict
    /\ \E n \in 0..MaxMetaDocs :
         \E bags \in [1..n -> MetadataBags] :
            vector_results = [i \in 1..n |-> [text |-> <<"t">>, metadata |-> bags[i]]]
    /\ query_terms \in SeqsOf(MetaTermPool, 0, MaxMetaTerms)
    /\ keyword_scores = NoDict
    /\ metadata_scores = NoDict
    /\ search_results = <<>>
    /\ IdleContext
    /\ IdleStore

MetadataBoost ==
    /\ pc = "meta_ready"
    /\ metadata_scores' = _metadata_boost(vector_results, query_terms)
    /\ pc' = "meta_done"
    /\ UNCHANGED <<request, vector_results, query_terms, keyword_scores,
                   search_results, context>>
    /\ UNCHANGED storeVars

Next_Meta == MetadataBoost

SpecMeta == Init_Meta /\ [][Next_Meta]_vars

\* C9: for every candidate set, metadata bag (any integer year) and list of
\* query terms, each value of the map returned by _metadata_boost lies in
\* [0, 1].
C9_MetadataInUnitInterval ==
    pc = "meta_done" =>
        \A k \in DOMAIN metadata_scores :
            metadata_scores[k] >= 0 /\ metadata_scores[k] <= Scale

\* Some query term occurs, case-insensitively, in the filename
FilenameHasTerm(metadata) ==
    /\ "filename" \in DOMAIN metadata
    /\ \E j \in 1..Len(query_terms) :
          Contains(Lower(metadata.filename), Lower(query_terms[j]))

\* The section type contains a finance-signal word
SectionHasSignal(metadata) ==
    /\ "section_type" \in DOMAIN metadata
    /\ \E keyword \in SectionKeywords :
          Contains(Lower(metadata.section_type), keyword)

\* C10: a chunk with no year field, a filename containing at least one query
\* term and a section type containing a finance-signal word scores exactly
\* 0.7, however many query terms match the filename.
C10_FilenameAndSectionGiveSevenTenths ==
    pc = "meta_done" =>
        \A i \in 1..Len(vector_results) :
            LET metadata == vector_results[i].metadata IN
            (/\ "year" \notin DOMAIN metadata
             /\ FilenameHasTerm(metadata)
             /\ SectionHasSignal(metadata))
            => metadata_scores[i - 1] = (7 * Scale) \div 10

\* A chunk of file "Ab", section "Financial Statement", no year, scored with
\* the two query terms "a" and "B", both in the filename: 0.7.
C10_Witness ==
    /\ pc = "meta_done"
    /\ Len(vector_results) = 1
    /\ DOMAIN vector_results[1].metadata = {"filename", "section_type"}
    /\ SectionHasSignal(vector_results[1].metadata)
    /\ query_terms = <<<<"a">>, <<"B">>>>
    /\ \A j \in 1..2 :
          Contains(Lower(vector_results[1].metadata.filename), Lower(query_terms[j]))
    /\ metadata_scores[0] = 700

----------------------------------------------------------------------------
(* The context assembly applied to ranked result lists and budgets *)

MaxResults == 3

\* Lengths of the result texts
TextLenPool == {1, 60, 150}

\* Values of max_chars
BudgetPool == {0, 100, 120, 161, 200, 260, 400}

\* A text of n characters, all the letter of rank i
Rep(i, n) == [k \in 1..n |-> LowerLetters[i]]

\* The SearchResult of rank i with the given text
RankedResult(i, text) ==
    [text |-> text, score |-> 0, vector_score |-> 0, keyword_score |-> 0,
     metadata_score |-> 0, chunk_index |-> i - 1, file_id |-> "f1",
     metadata |-> [file_id |-> "f1", chunk_index |-> i - 1]]

Init_Context ==
    /\ pc = "context_ready"
    /\ \E b \in BudgetPool : request = [max_chars |-> b]
    /\ \E lens \in SeqsOf(TextLenPool, 0, MaxResults) :
          search_results = [i \in 1..Len(lens) |-> RankedResult(i, Rep(i, lens[i]))]
    /\ vector_results = <<>>
    /\ IdleScorers
    /\ IdleContext
    /\ IdleStore

AssembleContext ==
    /\ pc = "context_ready"
    /\ context' = CombineContext(search_results, request.max_chars)
    /\ pc' = "context_done"
    /\ UNCHANGED <<request, vector_results, query_terms, keyword_scores,
                   metadata_scores, search_results>>
    /\ UNCHANGED storeVars

Next_Context == AssembleContext

SpecContext == Init_Context /\ [][Next_Context]_vars

\* Characters of the fragments before the last one
UsedBeforeLast ==
    SumSeq([k \in 1..(Len(context.combined_chunks) - 1) |->
                Len(context.combined_chunks[k])])

\* C6: for every ranked result list and budget max_chars, the returned
\* context string is at most max_chars long, and its last fragment is a
\* whole chunk or the prefix of a chunk of length max_chars minus the
\* characters already used.
C6_ContextWithinBudget ==
    pc = "context_done" =>
        /\ Len(context.text) <= request.max_chars
        /\ context.combined_chunks # <<>> =>
              LET n == Len(context.combined_chunks)
                  last == context.combined_chunks[n]
              IN  \/ last = search_results[n].text
                  \/ /\ last = Prefix(search_results[n].text, Len(last))
                     /\ Len(last) = request.max_chars - UsedBeforeLast

----------------------------------------------------------------------------
(* HybridSearchEngine.search over the VectorStore *)

MaxChunks == 2

\* "a", "b b"
ChunkTextPool == {<<"a">>, <<"b", " ", "b">>}

\* The metadata chat.py and analyze.py pass to add_document
ExtraMetadata(file_id) ==
    {[format |-> "txt"],
     [format |-> "txt", filename |-> <<"f", file_id, ".", "t", "x", "t">>]}

\* The collections with up to MaxChunks chunks of f1 and up to one of f2
Collections ==
    {c1 \cup c2 :
        c1 \in {StoredChunks("1", t, e) :
                    t \in SeqsOf(ChunkTextPool, 0, MaxChunks), e \in ExtraMetadata("1")},
        c2 \in {StoredChunks("2", t, e) :
                    t \in SeqsOf(ChunkTextPool, 0, 1), e \in ExtraMetadata("2")}}

\* "a", "f"
SearchTermPool == {<<"a">>, <<"f">>}

FileIdLists == {<<>>, <<"1">>, <<"1", "2">>}

TopKPool == {1, 2}

Init_Search ==
    /\ pc = "search_ready"
    /\ request = NoDict
    /\ collection \in Collections
    /\ vector_results = <<>>
    /\ IdleScorers
    /\ search_results = <<>>
    /\ IdleContext
    /\ uploads = NoDict
    /\ conversation_store = NoDict
    /\ llm_calls = <<>>
    /\ query_log = <<>>
    /\ response = NoDict

Search ==
    /\ pc = "search_ready"
    /\ \E expanded_terms \in SeqsOf(SearchTermPool, 0, 1), file_ids \in FileIdLists,
          top_k \in TopKPool, use_reranking \in BOOLEAN :
        \E ranking \in Rankings(Scope(collection, file_ids)) :
          LET out == HybridSearch(<<"q">>, expanded_terms, ranking, top_k, use_reranking) IN
          /\ request' = [query |-> <<"q">>, expanded_terms |-> expanded_terms,
                         file_ids |-> file_ids, top_k |-> top_k,
                         use_reranking |-> use_reranking]
          /\ pc' = IF out.raised THEN "search_raised" ELSE "search_done"
          /\ vector_results' = out.vector_results
          /\ query_terms' = expanded_terms
          /\ keyword_scores' = out.keyword_scores
          /\ metadata_scores' = out.metadata_scores
          /\ search_results' = out.results
    /\ UNCHANGED context
    /\ UNCHANGED storeVars

Next_Search == Search

SpecSearch == Init_Search /\ [][Next_Search]_vars

\* The candidate of the vector index a result was built from
CandidateOf(r) ==
    CHOOSE c \in Range(vector_results) :
        /\ c.metadata.file_id = r.file_id
        /\ c.metadata.chunk_index = r.chunk_index

\* C3: when search runs over the VectorStore, the vector_score of every
\* returned SearchResult is its candidate's own similarity as returned by
\* the vector index for the query (1 - distance), not a constant or default.
C3_VectorScoreIsIndexSimilarity ==
    pc = "search_done" =>
        \A i \in 1..Len(search_results) :
            search_results[i].vector_score
                = Scale - CandidateOf(search_results[i]).distance

\* The SearchResult of every candidate of the last search, in index order
FusedCandidates ==
    [i \in DOMAIN vector_results |->
        FuseOne(vector_results[i], i - 1, keyword_scores, metadata_scores)]

\* The candidates of the last search that are not among its results
LeftOut == {i \in DOMAIN FusedCandidates : FusedCandidates[i] \notin Range(search_results)}

\* C19: search asks the vector index for 2 * top_k candidates, so that it
\* gets that many or, if the scope holds fewer chunks, all of them, and it
\* returns min(top_k, number of candidates) of the candidates, each once,
\* those with the highest final scores: no candidate left out has a final
\* score strictly higher than a returned one.
C19_TopKOfTwiceTopK ==
    pc = "search_done" =>
        /\ Len(vector_results)
               = Min(2 * request.top_k,
                     Cardinality(Scope(collection, request.file_ids)))
        /\ Len(search_results) = Min(request.top_k, Len(vector_results))
        /\ Range(search_results) \subseteq Range(FusedCandidates)
        /\ Cardinality(LeftOut) = Len(vector_results) - Len(search_results)
        /\ \A i \in LeftOut : \A k \in DOMAIN search_results :
               FusedCandidates[i].score <= search_results[k].score

\* The scope holds more than 2 * top_k chunks, the index gave 2 * top_k of
\* them, and the one result is the candidate the index ranked second, whose
\* final score is strictly higher than that of the candidate left out
C19_Witness ==
    /\ pc = "search_done"
    /\ request.top_k = 1
    /\ Cardinality(Scope(collection, request.file_ids)) = 3
    /\ Len(vector_results) = 2
    /\ search_results = <<FusedCandidates[2]>>
    /\ FusedCandidates[1].score < FusedCandidates[2].score

\* The chunks of the collection in the order the index gave them for the
\* last search
IndexRanking ==
    [i \in DOMAIN vector_results |->
        CHOOSE c \in collection : c.id = vector_results[i].id]

\* C20: for the same query, terms, top_k and answer of the index, search
\* with use_reranking = true and search with use_reranking = false return
\* the same list of results, in the same order and with the same scores.
C20_RerankIsPassThrough ==
    pc = "search_done" =>
        search_results
            = HybridSearch(request.query, request.expanded_terms, IndexRanking,
                           request.top_k, ~request.use_reranking).results

\* A search with re-ranking has returned two results of different scores
C20_Witness ==
    /\ pc = "search_done"
    /\ request.use_reranking
    /\ Len(search_results) = 2
    /\ search_results[1].score > search_results[2].score

----------------------------------------------------------------------------
(* FinancialQueryProcessor: the analysis of a question.  The entities, the *)
(* matches of the four entity patterns, are not part of the model: nothing *)
(* else in the analysis or the retrieval reads them.                       *)

\* FINANCIAL_METRICS: every canonical term with its synonyms, in the order
\* of the dict; a term is the list of its characters
FINANCIAL_METRICS ==
    <<
      \* revenue: sales, income, turnover, receipts, proceeds
      [canonical |-> <<"r", "e", "v", "e", "n", "u", "e">>,
       synonyms |-> <<
           <<"s", "a", "l", "e", "s">>,
           <<"i", "n", "c", "o", "m", "e">>,
           <<"t", "u", "r", "n", "o", "v", "e", "r">>,
           <<"r", "e", "c", "e", "i", "p", "t", "s">>,
           <<"p", "r", "o", "c", "e", "e", "d", "s">>>>],
      \* profit: earnings, net income, bottom line, margin, gains
      [canonical |-> <<"p", "r", "o", "f", "i", "t">>,
       synonyms |-> <<
           <<"e", "a", "r", "n", "i", "n", "g", "s">>,
           <<"n", "e", "t", " ", "i", "n", "c", "o", "m", "e">>,
           <<"b", "o", "t", "t", "o", "m", " ", "l", "i", "n", "e">>,
           <<"m", "a", "r", "g", "i", "n">>,
           <<"g", "a", "i", "n", "s">>>>],
      \* loss: deficit, shortfall, negative earnings, red ink
      [canonical |-> <<"l", "o", "s", "s">>,
       synonyms |-> <<
           <<"d", "e", "f", "i", "c", "i", "t">>,
           <<"s", "h", "o", "r", "t", "f", "a", "l", "l">>,
           <<"n", "e", "g", "a", "t", "i", "v", "e", " ", "e", "a", "r", "n", "i", "n", "g", "s">>,
           <<"r", "e", "d", " ", "i", "n", "k">>>>],
      \* assets: holdings, resources, property, investments
      [canonical |-> <<"a", "s", "s", "e", "t", "s">>,
       synonyms |-> <<
           <<"h", "o", "l", "d", "i", "n", "g", "s">>,
           <<"r", "e", "s", "o", "u", "r", "c", "e", "s">>,
           <<"p", "r", "o", "p", "e", "r", "t", "y">>,
           <<"i", "n", "v", "e", "s", "t", "m", "e", "n", "t", "s">>>>],
      \* liabilities: debts, obligations, payables, borrowings
      [canonical |-> <<"l", "i", "a", "b", "i", "l", "i", "t", "i", "e", "s">>,
       synonyms |-> <<
           <<"d", "e", "b", "t", "s">>,
           <<"o", "b", "l", "i", "g", "a", "t", "i", "o", "n", "s">>,
           <<"p", "a", "y", "a", "b", "l", "e", "s">>,
           <<"b", "o", "r", "r", "o", "w", "i", "n", "g", "s">>>>],
      \* equity: capital, shareholder equity, net worth, ownership
      [canonical |-> <<"e", "q", "u", "i", "t", "y">>,
       synonyms |-> <<
           <<"c", "a", "p", "i", "t", "a", "l">>,
           <<"s", "h", "a", "r", "e", "h", "o", "l", "d", "e", "r", " ", "e", "q", "u", "i", "t", "y">>,
           <<"n", "e", "t", " ", "w", "o", "r", "t", "h">>,
           <<"o", "w", "n", "e", "r", "s", "h", "i", "p">>>>],
      \* cash flow: cash generation, liquidity, operating cash
      [canonical |-> <<"c", "a", "s", "h", " ", "f", "l", "o", "w">>,
       synonyms |-> <<
           <<"c", "a", "s", "h", " ", "g", "e", "n", "e", "r", "a", "t", "i", "o", "n">>,
           <<"l", "i", "q", "u", "i", "d", "i", "t", "y">>,
           <<"o", "p", "e", "r", "a", "t", "i", "n", "g", " ", "c", "a", "s", "h">>>>],
      \* ebitda: operating profit, operating income, operational earnings
      [canonical |-> <<"e", "b", "i", "t", "d", "a">>,
       synonyms |-> <<
           <<"o", "p", "e", "r", "a", "t", "i", "n", "g", " ", "p", "r", "o", "f", "i", "t">>,
           <<"o", "p", "e", "r", "a", "t", "i", "n", "g", " ", "i", "n", "c", "o", "m", "e">>,
           <<"o", "p", "e", "r", "a", "t", "i", "o", "n", "a", "l", " ", "e", "a", "r", "n", "i", "n", "g", "s">>>>],
      \* expenses: costs, expenditures, outflows, spending
      [canonical |-> <<"e", "x", "p", "e", "n", "s", "e", "s">>,
       synonyms |-> <<
           <<"c", "o", "s", "t", "s">>,
           <<"e", "x", "p", "e", "n", "d", "i", "t", "u", "r", "e", "s">>,
           <<"o", "u", "t", "f", "l", "o", "w", "s">>,
           <<"s", "p", "e", "n", "d", "i", "n", "g">>>>],
      \* dividend: payout, distribution, shareholder return
      [canonical |-> <<"d", "i", "v", "i", "d", "e", "n", "d">>,
       synonyms |-> <<
           <<"p", "a", "y", "o", "u", "t">>,
           <<"d", "i", "s", "t", "r", "i", "b", "u", "t", "i", "o", "n">>,
           <<"s", "h", "a", "r", "e", "h", "o", "l", "d", "e", "r", " ", "r", "e", "t", "u", "r", "n">>>>],
      \* debt: borrowing, loan, bond, financing, leverage
      [canonical |-> <<"d", "e", "b", "t">>,
       synonyms |-> <<
           <<"b", "o", "r", "r", "o", "w", "i", "n", "g">>,
           <<"l", "o", "a", "n">>,
           <<"b", "o", "n", "d">>,
           <<"f", "i", "n", "a", "n", "c", "i", "n", "g">>,
           <<"l", "e", "v", "e", "r", "a", "g", "e">>>>],
      \* growth: increase, expansion, rise, improvement
      [canonical |-> <<"g", "r", "o", "w", "t", "h">>,
       synonyms |-> <<
           <<"i", "n", "c", "r", "e", "a", "s", "e">>,
           <<"e", "x", "p", "a", "n", "s", "i", "o", "n">>,
           <<"r", "i", "s", "e">>,
           <<"i", "m", "p", "r", "o", "v", "e", "m", "e", "n", "t">>>>],
      \* valuation: value, worth, market cap, enterprise value
      [canonical |-> <<"v", "a", "l", "u", "a", "t", "i", "o", "n">>,
       synonyms |-> <<
           <<"v", "a", "l", "u", "e">>,
           <<"w", "o", "r", "t", "h">>,
           <<"m", "a", "r", "k", "e", "t", " ", "c", "a", "p">>,
           <<"e", "n", "t", "e", "r", "p", "r", "i", "s", "e", " ", "v", "a", "l", "u", "e">>>>],
      \* margin: profitability, markup, spread, profit margin
      [canonical |-> <<"m", "a", "r", "g", "i", "n">>,
       synonyms |-> <<
           <<"p", "r", "o", "f", "i", "t", "a", "b", "i", "l", "i", "t", "y">>,
           <<"m", "a", "r", "k", "u", "p">>,
           <<"s", "p", "r", "e", "a", "d">>,
           <<"p", "r", "o", "f", "i", "t", " ", "m", "a", "r", "g", "i", "n">>>>],
      \* ratio: metric, indicator, measurement, coefficient
      [canonical |-> <<"r", "a", "t", "i", "o">>,
       synonyms |-> <<
           <<"m", "e", "t", "r", "i", "c">>,
           <<"i", "n", "d", "i", "c", "a", "t", "o", "r">>,
           <<"m", "e", "a", "s", "u", "r", "e", "m", "e", "n", "t">>,
           <<"c", "o", "e", "f", "f", "i", "c", "i", "e", "n", "t">>>>]
    >>

\* compare, versus, vs, between, difference, contrast, rank, which
COMPARISON_VERBS ==
    <<
      <<"c", "o", "m", "p", "a", "r", "e">>,
      <<"v", "e", "r", "s", "u", "s">>,
      <<"v", "s">>,
      <<"b", "e", "t", "w", "e", "e", "n">>,
      <<"d", "i", "f", "f", "e", "r", "e", "n", "c", "e">>,
      <<"c", "o", "n", "t", "r", "a", "s", "t">>,
      <<"r", "a", "n", "k">>,
      <<"w", "h", "i", "c", "h">>
    >>

\* what, how much, show, find, get, extract, list
EXTRACTION_VERBS ==
    <<
      <<"w", "h", "a", "t">>,
      <<"h", "o", "w", " ", "m", "u", "c", "h">>,
      <<"s", "h", "o", "w">>,
      <<"f", "i", "n", "d">>,
      <<"g", "e", "t">>,
      <<"e", "x", "t", "r", "a", "c", "t">>,
      <<"l", "i", "s", "t">>
    >>

\* summarize, overview, summary, explain, describe, tell me about
SUMMARY_VERBS ==
    <<
      <<"s", "u", "m", "m", "a", "r", "i", "z", "e">>,
      <<"o", "v", "e", "r", "v", "i", "e", "w">>,
      <<"s", "u", "m", "m", "a", "r", "y">>,
      <<"e", "x", "p", "l", "a", "i", "n">>,
      <<"d", "e", "s", "c", "r", "i", "b", "e">>,
      <<"t", "e", "l", "l", " ", "m", "e", " ", "a", "b", "o", "u", "t">>
    >>

\* calculate, compute, determine, measure
CALCULATION_VERBS ==
    <<
      <<"c", "a", "l", "c", "u", "l", "a", "t", "e">>,
      <<"c", "o", "m", "p", "u", "t", "e">>,
      <<"d", "e", "t", "e", "r", "m", "i", "n", "e">>,
      <<"m", "e", "a", "s", "u", "r", "e">>
    >>

\* compare, versus, vs, between, across documents, all documents, which company, which document, highest, lowest, best, worst, rank
cross_doc_indicators ==
    <<
      <<"c", "o", "m", "p", "a", "r", "e">>,
      <<"v", "e", "r", "s", "u", "s">>,
      <<"v", "s">>,
      <<"b", "e", "t", "w", "e", "e", "n">>,
      <<"a", "c", "r", "o", "s", "s", " ", "d", "o", "c", "u", "m", "e", "n", "t", "s">>,
      <<"a", "l", "l", " ", "d", "o", "c", "u", "m", "e", "n", "t", "s">>,
      <<"w", "h", "i", "c", "h", " ", "c", "o", "m", "p", "a", "n", "y">>,
      <<"w", "h", "i", "c", "h", " ", "d", "o", "c", "u", "m", "e", "n", "t">>,
      <<"h", "i", "g", "h", "e", "s", "t">>,
      <<"l", "o", "w", "e", "s", "t">>,
      <<"b", "e", "s", "t">>,
      <<"w", "o", "r", "s", "t">>,
      <<"r", "a", "n", "k">>
    >>

Digits == {"0", "1", "2", "3", "4", "5", "6", "7", "8", "9"}

\* \w of the regular expressions
IsWordChar(c) == c \in Range(UpperLetters) \cup Range(LowerLetters) \cup Digits \cup {"_"}

\* \b just before position p of t: a word character on exactly one side
Boundary(t, p) ==
    (p - 1 \in 1..Len(t) /\ IsWordChar(t[p - 1])) # (p \in 1..Len(t) /\ IsWordChar(t[p]))

\* re.search(r'\b' + re.escape(term) + r'\b', t)
WholeWord(term, t) ==
    \E i \in 1..(Len(t) - Len(term) + 1) :
        /\ SubSeq(t, i, i + Len(term) - 1) = term
        /\ Boundary(t, i)
        /\ Boundary(t, i + Len(term))

RECURSIVE Concat(_)
\* The lists of a list, one after the other
Concat(lists) == IF lists = <<>> THEN <<>> ELSE Head(lists) \o Concat(Tail(lists))

\* __init__, the assignments in their order: every canonical term, then each
\* of its synonyms, with that canonical term
AssignmentsOf(metrics) ==
    Concat([e \in DOMAIN metrics |->
               <<[term |-> metrics[e].canonical,
                  canonical |-> metrics[e].canonical]>>
               \o [k \in DOMAIN metrics[e].synonyms |->
                      [term |-> metrics[e].synonyms[k],
                       canonical |-> metrics[e].canonical]]])

Assignments == AssignmentsOf(FINANCIAL_METRICS)

\* The i-th element of s for the i in the set idx, in ascending order of i
Pick(s, idx) ==
    LET nth(k) == CHOOSE i \in idx : Cardinality({j \in idx : j <= i}) = k
    IN  [k \in 1..Cardinality(idx) |-> s[nth(k)]]

\* self.term_to_canonical as the list of its items: a term stands where it
\* was first assigned and carries the canonical term it was last assigned
ItemsOf(assignments) ==
    LET first == {i \in DOMAIN assignments :
                     \A j \in 1..(i - 1) : assignments[j].term # assignments[i].term}
        last(term) == CHOOSE i \in DOMAIN assignments :
                          /\ assignments[i].term = term
                          /\ \A j \in (i + 1)..Len(assignments) :
                                 assignments[j].term # term
    IN  Pick([i \in DOMAIN assignments |->
                 [term |-> assignments[i].term,
                  canonical |-> assignments[last(assignments[i].term)].canonical]],
             first)

term_to_canonical == ItemsOf(Assignments)

\* any(verb in query_lower for verb in verbs)
AnyIn(verbs, query_lower) == \E k \in DOMAIN verbs : Contains(query_lower, verbs[k])

_detect_intent_extraction_first(query_lower) ==
    IF AnyIn(EXTRACTION_VERBS, query_lower) THEN "extract"
    ELSE IF AnyIn(COMPARISON_VERBS, query_lower) THEN "compare"
    ELSE IF AnyIn(CALCULATION_VERBS, query_lower) THEN "calculate"
    ELSE IF AnyIn(SUMMARY_VERBS, query_lower) THEN "summarize"
    ELSE "question"

\* FinancialQueryProcessor._detect_intent
_detect_intent(query_lower) ==
    IF AnyIn(COMPARISON_VERBS, query_lower) THEN "compare"
    ELSE IF AnyIn(CALCULATION_VERBS, query_lower) THEN "calculate"
    ELSE IF AnyIn(SUMMARY_VERBS, query_lower) THEN "summarize"
    ELSE IF AnyIn(EXTRACTION_VERBS, query_lower) THEN "extract"
    ELSE "question"

RECURSIVE KeywordsFrom(_, _, _)
\* The loop over the items of term_to_canonical from item i on
KeywordsFrom(query_lower, i, keywords) ==
    IF i > Len(term_to_canonical) THEN keywords
    ELSE LET item == term_to_canonical[i] IN
         IF WholeWord(item.term, query_lower) /\ item.canonical \notin Range(keywords)
         THEN KeywordsFrom(query_lower, i + 1, Append(keywords, item.canonical))
         ELSE KeywordsFrom(query_lower, i + 1, keywords)

_extract_financial_keywords_as_matched(query_lower) ==
    LET hit == {i \in DOMAIN term_to_canonical :
                   WholeWord(term_to_canonical[i].term, query_lower)}
    IN  Pick([i \in DOMAIN term_to_canonical |-> term_to_canonical[i].term], hit)

\* FinancialQueryProcessor._extract_financial_keywords
_extract_financial_keywords(query_lower) == KeywordsFrom(query_lower, 1, <<>>)

\* FinancialQueryProcessor._extract_action_verbs
_extract_action_verbs(query_lower) ==
    LET all_verbs == COMPARISON_VERBS \o EXTRACTION_VERBS
                     \o SUMMARY_VERBS \o CALCULATION_VERBS
    IN  Pick(all_verbs, {i \in DOMAIN all_verbs : WholeWord(all_verbs[i], query_lower)})

\* self.FINANCIAL_METRICS[keyword]
SynonymsOf(keyword) ==
    LET e == CHOOSE x \in DOMAIN FINANCIAL_METRICS :
                 FINANCIAL_METRICS[x].canonical = keyword
    IN  FINANCIAL_METRICS[e].synonyms

\* keyword in self.FINANCIAL_METRICS
IsCanonical(keyword) ==
    \E e \in DOMAIN FINANCIAL_METRICS : FINANCIAL_METRICS[e].canonical = keyword

\* The list expanded of _expand_query: every keyword followed by its synonyms
Expanded(keywords) ==
    Concat([k \in DOMAIN keywords |->
               <<keywords[k]>>
               \o (IF IsCanonical(keywords[k]) THEN SynonymsOf(keywords[k]) ELSE <<>>)])

\* The place of a term in the dictionary
TermRank(term) == CHOOSE i \in DOMAIN term_to_canonical : term_to_canonical[i].term = term

\* list(set(terms)): every term once.  The order a set of strings is listed
\* in changes from one run of the interpreter to the next; two orders are
\* modelled, that of the dictionary and its reverse.
ListOfSet(terms, set_order) ==
    LET S == Range(terms)
        n == Cardinality(S)
        asc == [k \in 1..n |->
                   CHOOSE t \in S :
                       Cardinality({u \in S : TermRank(u) <= TermRank(t)}) = k]
    IN  IF set_order = "asc" THEN asc ELSE [k \in 1..n |-> asc[n + 1 - k]]

_expand_query_keywords_only(keywords, set_order) == ListOfSet(keywords, set_order)

\* FinancialQueryProcessor._expand_query
_expand_query(keywords, set_order) == ListOfSet(Expanded(keywords), set_order)

_is_cross_document_query_by_verbs(query_lower, action_verbs) ==
    \E k \in DOMAIN action_verbs : action_verbs[k] \in Range(COMPARISON_VERBS)

\* FinancialQueryProcessor._is_cross_document_query
_is_cross_document_query(query_lower, action_verbs) ==
    AnyIn(cross_doc_indicators, query_lower)

\* FinancialQueryProcessor.analyze
analyze(query, set_order) ==
    LET query_lower == Lower(query)
        keywords == _extract_financial_keywords(query_lower)
        action_verbs == _extract_action_verbs(query_lower)
    IN  [original_query |-> query,
         intent |-> _detect_intent(query_lower),
         keywords |-> keywords,
         expanded_terms |-> _expand_query(keywords, set_order),
         action_verbs |-> action_verbs,
         is_cross_document |-> _is_cross_document_query(query_lower, action_verbs)]

----------------------------------------------------------------------------
(* The HTTP handlers: upload, the two deletes, chat and chat-all.  Every   *)
(* handler is an async function without a suspension point between its     *)
(* reads and writes of the stores, so each request is one step.            *)

\* f"doc_{file_id}"
CacheKey(file_id) ==
    CASE file_id = "1" -> "doc_1"
      [] file_id = "2" -> "doc_2"
      [] file_id = "3" -> "doc_3"

\* f"conv_{file_id}"
ConvKey(file_id) ==
    CASE file_id = "1" -> "conv_1"
      [] file_id = "2" -> "conv_2"
      [] file_id = "3" -> "conv_3"

\* The two kinds of value conversation_store holds: the dict of a cached
\* document and the list of a conversation's messages
CachedDoc(text, format) == [kind |-> "dict", text |-> text, format |-> format]
CachedText(text) == [kind |-> "dict", text |-> text]
Messages(items) == [kind |-> "list", items |-> items]

\* d[k] = v
Put(d, k, v) == [x \in {k} |-> v] @@ d

\* The dict d without key k
Without(d, k) == [x \in DOMAIN d \ {k} |-> d[x]]

\* DocumentParser.parse_document on an uploaded file
parse_document(file) ==
    IF file.readable
    THEN [success |-> TRUE, text |-> Strip(file.text), format |-> file.format]
    ELSE [success |-> FALSE, format |-> file.format]

\* vector_store.search(query=".", file_ids=[file_id], top_k=1) finds a chunk
HasChunks(chunks, file_id) == ChunksOf(chunks, file_id) # {}

\* The format recorded with the first chunk, 'unknown' without one
FormatOf(chunks, file_id) ==
    LET first == CHOOSE c \in ChunksOf(chunks, file_id) : TRUE
    IN  Get(first.metadata, "format", "unknown")

Failure(status, detail) == [status |-> status, detail |-> detail]

\* top_k of the search of _find_relevant_context_optimized
ContextTopK == 15

\* max_chars of _find_relevant_context_optimized
DefaultMaxChars == 20000

\* relevant_context[:15000] of the extraction prompt
ExtractionContextChars == 15000

\* vector_results[:10] of log_query
LoggedChunks == 10

Question == <<"a">>

\* The questions of the requests: the empty one and a one-word one
QuestionPool == {<<>>, Question}

\* The orders in which list(set(...)) can give the expanded terms
SetOrders == {"asc", "desc"}

\* query_processor.analyze(question) for the questions of the requests
Analyses == [q \in QuestionPool |-> [o \in SetOrders |-> analyze(q, o)]]

\* The analysis of a question, looked up in a table of analyses when the
\* table has it
AnalysisIn(analyses, question, set_order) ==
    IF question \in DOMAIN analyses
    THEN analyses[question][set_order]
    ELSE analyze(question, set_order)

\* analysis = query_processor.analyze(question)
Analysis(question, set_order) == AnalysisIn(Analyses, question, set_order)

\* The orders list(set(expanded)) can take for a question: one order when
\* there is at most one term to put in order
OrdersOf(question) ==
    IF Len(Analysis(question, "asc").expanded_terms) <= 1 THEN {"asc"} ELSE SetOrders

\* The ranking the index gives the chunks of S for a question, nearness
\* giving every chunk id its place among all chunks
RankingBy(S, nearness) ==
    CHOOSE r \in Rankings(S) :
        \A i, j \in DOMAIN r : i < j => nearness[r[i].id] < nearness[r[j].id]

LexicalTermsOfQuestion(question, analysis) ==
    LET words == SplitFrom(Lower(question), <<" ">>, 1)
    IN  [i \in 1..Cardinality({j \in DOMAIN words : words[j] # <<>>}) |->
            words[CHOOSE j \in DOMAIN words :
                      /\ words[j] # <<>>
                      /\ Cardinality({k \in 1..j : words[k] # <<>>}) = i]]

\* expanded_terms=analysis.expanded_terms: the terms handed to the lexical stage
LexicalTerms(question, analysis) == analysis.expanded_terms

\* One item of results_for_logging
ResultForLogging(r) == [text |-> r.text, score |-> r.score, metadata |-> r.metadata]

\* Nothing retrieved: the values of a request that made no search
NoRetrieval ==
    [raised |-> FALSE, file_ids |-> <<>>, expanded_terms |-> <<>>,
     vector_results |-> <<>>, keyword_scores |-> NoDict,
     metadata_scores |-> NoDict, search_results |-> <<>>, context |-> NoDict,
     relevant_context |-> <<>>, results_for_logging |-> <<>>,
     analysis_dict |-> NoDict]

\* The return values of _find_relevant_context_optimized once the search has
\* returned found: the context assembly, and with the three return values
\* relevant_context, results_for_logging and analysis_dict, the arguments
\* and results of the search
Retrieved(analysis, file_ids, expanded_terms, found, max_chars) ==
    LET combined == CombineContext(found.results, max_chars)
        searched == [NoRetrieval EXCEPT
                        !.raised = found.raised,
                        !.file_ids = file_ids,
                        !.expanded_terms = expanded_terms,
                        !.vector_results = found.vector_results,
                        !.keyword_scores = found.keyword_scores,
                        !.metadata_scores = found.metadata_scores,
                        !.search_results = found.results]
    IN  IF found.results = <<>>
        THEN searched
        ELSE [searched EXCEPT
                 !.context = combined,
                 !.relevant_context = combined.text,
                 !.results_for_logging =
                     [i \in 1..Len(found.results) |-> ResultForLogging(found.results[i])],
                 !.analysis_dict =
                     [intent |-> analysis.intent,
                      keywords |-> analysis.keywords,
                      expanded_terms |-> analysis.expanded_terms,
                      is_cross_document |-> analysis.is_cross_document]]

\* _find_relevant_context_optimized once the question is analysed: the
\* hybrid search scoped to the one file id, then the context assembly
SearchWith(chunks, file_id, question, nearness, analysis, max_chars) ==
    LET file_ids == <<file_id>>
        expanded_terms == LexicalTerms(question, analysis)
    IN  Retrieved(analysis, file_ids, expanded_terms,
                  HybridSearch(question, expanded_terms,
                               RankingBy(Scope(chunks, file_ids), nearness),
                               ContextTopK, FALSE),
                  max_chars)

\* _find_relevant_context_optimized: the analysis of the question, the hybrid
\* search and the context assembly
_find_relevant_context_optimized(chunks, file_id, question, nearness, set_order, max_chars) ==
    SearchWith(chunks, file_id, question, nearness,
               Analysis(question, set_order), max_chars)

\* The summary log_query writes of one chunk handed to it
ChunkSummary(result, i) ==
    [rank |-> i,
     chunk_id |-> Get(result, "id", "unknown"),
     distance |-> Get(result, "distance", 0),
     text_full |-> Get(result, "text", <<>>),
     text_length |-> Len(Get(result, "text", <<>>)),
     metadata |-> Get(result, "metadata", NoDict)]

\* QueryLogger.log_query: the arguments it is handed and the top_chunks it
\* writes of them
log_query(question, answer, file_id, results, keyword_matches, total_context_chars, conversation_id) ==
    [question |-> question, answer |-> answer, file_id |-> file_id,
     vector_results |-> results,
     keyword_matches |-> keyword_matches,
     total_context_chars |-> total_context_chars,
     conversation_id |-> conversation_id,
     top_chunks |-> [i \in 1..Min(LoggedChunks, Len(results)) |->
                        ChunkSummary(results[i], i)]]

\* The outcome of a handler: the stores it leaves, the LLM calls it issued
\* and its response; nothing searched and nothing logged
Outcome(store, chunks, calls, resp) ==
    [conversation_store |-> store, collection |-> chunks,
     llm_calls |-> calls, response |-> resp,
     found |-> NoRetrieval, query_log |-> <<>>]

\* The answer of the LLM to its n-th call of a request
Answer(n) == [answer_of_call |-> n]

AppendAnswerOnly(items, question, answer) ==
    Append(items, [role |-> "assistant", content |-> answer])

\* Save to conversation history: the question, then the answer
AppendExchange(items, question, answer) ==
    items \o <<[role |-> "user", content |-> question],
               [role |-> "assistant", content |-> answer]>>

\* conversation_history[-3:]
LastMessages(items) == SubSeq(items, Len(items) - Min(3, Len(items)) + 1, Len(items))

\* chat_with_document, from the search on: the conversation is conv_id in
\* store1 and the search has returned found
ChatFound(store1, chunks, req, conv_id, llm_ok, found) ==
    LET conversation_history == store1[conv_id]
        failed(calls) == [Outcome(store1, chunks, calls, Failure(500, "Chat failed"))
                             EXCEPT !.found = found]
        call == [stage |-> "chat", file_id |-> req.file_id, ok |-> llm_ok,
                 context |-> found.relevant_context,
                 history |-> LastMessages(conversation_history.items),
                 question |-> req.question]
        answer == Answer(1)
    IN  IF found.raised
        THEN failed(<<>>)
        ELSE IF conversation_history.kind # "list"
        THEN \* conversation_history[-3:] on a dict raises
             failed(<<>>)
        ELSE IF ~llm_ok
        THEN failed(<<call>>)
        ELSE [conversation_store |->
                  Put(store1, conv_id,
                      Messages(AppendExchange(conversation_history.items,
                                              req.question, answer))),
              collection |-> chunks,
              llm_calls |-> <<call>>,
              response |-> [status |-> 200, success |-> TRUE, answer |-> answer,
                            conversation_id |-> conv_id, file_id |-> req.file_id],
              found |-> found,
              query_log |->
                  <<log_query(req.question, answer, req.file_id,
                              found.results_for_logging,
                              Get(found.analysis_dict, "keywords", <<>>),
                              Len(found.relevant_context), conv_id)>>]

\* chat_with_document, from the conversation on: the document text is known
ChatConversation(store, chunks, req, llm_ok, nearness, set_order) ==
    LET conv_id == IF req.conversation_id # ""
                   THEN req.conversation_id ELSE ConvKey(req.file_id)
    IN  ChatFound(IF conv_id \notin DOMAIN store
                  THEN Put(store, conv_id, Messages(<<>>)) ELSE store,
                  chunks, req, conv_id, llm_ok,
                  _find_relevant_context_optimized(chunks, req.file_id, req.question,
                                                   nearness, set_order, DefaultMaxChars))

\* chat_with_document, "Get document text" for a known file: the store and
\* the collection with the text at hand, or the response that ends the request
DocumentText(store, chunks, files, req) ==
    LET cache_key == CacheKey(req.file_id)
        parse_result == parse_document(files[req.file_id])
        at_hand(store1, chunks1) ==
            [ended |-> FALSE, conversation_store |-> store1, collection |-> chunks1]
        ends(resp) == [ended |-> TRUE, response |-> resp]
    IN  IF cache_key \in DOMAIN store
        THEN IF store[cache_key].kind # "dict"
             THEN \* conversation_store[cache_key]["text"] on a list raises
                  ends(Failure(500, "Chat failed"))
             ELSE at_hand(store, chunks)
        ELSE IF HasChunks(chunks, req.file_id)
        THEN at_hand(Put(store, cache_key,
                         CachedDoc(Reconstruct(chunks, req.file_id),
                                   FormatOf(chunks, req.file_id))),
                     chunks)
        ELSE IF ~parse_result.success
        THEN ends(Failure(400, "Document parsing failed"))
        ELSE at_hand(Put(store, cache_key,
                         CachedDoc(parse_result.text, parse_result.format)),
                     add_document(chunks, req.file_id, parse_result.text,
                                  [format |-> parse_result.format]))

\* chat_with_document, from the document text on
ChatAboutText(store, chunks, doc, req, llm_ok, nearness, set_order) ==
    IF doc.ended
    THEN Outcome(store, chunks, <<>>, doc.response)
    ELSE ChatConversation(doc.conversation_store, doc.collection, req, llm_ok,
                          nearness, set_order)

\* chat_with_document
chat_with_document(store, chunks, files, req, llm_ok, nearness, set_order) ==
    IF req.file_id \notin DOMAIN files
    THEN Outcome(store, chunks, <<>>, Failure(404, "File not found"))
    ELSE ChatAboutText(store, chunks, DocumentText(store, chunks, files, req),
                       req, llm_ok, nearness, set_order)

\* get_chat_history: the messages of the conversation, none for an unknown id
get_chat_history(store, conversation_id) ==
    [status |-> 200, success |-> TRUE, conversation_id |-> conversation_id,
     messages |-> IF conversation_id \notin DOMAIN store
                  THEN Messages(<<>>)
                  ELSE store[conversation_id]]

\* clear_chat_history: del conversation_store[conversation_id] when present
clear_chat_history(store, conversation_id) == Without(store, conversation_id)

\* Whether the n-th LLM call of a request succeeds, when the provider fails
\* the call numbered fail_at (0: no call fails)
CallSucceeds(n, fail_at) == n # fail_at

PrependFact(extracted_data, fact) == <<fact>> \o extracted_data

\* extracted_data.append({...})
AppendFact(extracted_data, fact) == Append(extracted_data, fact)

\* chat_with_all_documents, "Get document text" of STAGE 1 for one id: the
\* document is skipped, reading it raises, or its text is at hand in the store
ExtractionText(store, chunks, files, file_id) ==
    LET cache_key == CacheKey(file_id) IN
    IF file_id \notin DOMAIN files
    THEN [todo |-> "skip", conversation_store |-> store]
    ELSE IF cache_key \in DOMAIN store
    THEN IF store[cache_key].kind # "dict"
         THEN \* conversation_store[cache_key]["text"] on a list raises
              [todo |-> "raise", conversation_store |-> store]
         ELSE [todo |-> "extract", conversation_store |-> store]
    ELSE IF HasChunks(chunks, file_id)
    THEN [todo |-> "extract",
          conversation_store |->
              Put(store, cache_key, CachedText(Reconstruct(chunks, file_id)))]
    ELSE [todo |-> "skip", conversation_store |-> store]

RECURSIVE Stage1(_, _, _, _, _, _, _, _, _, _, _)
RECURSIVE Extract(_, _, _, _, _, _, _, _, _, _, _, _)
\* chat_with_all_documents, STAGE 1 for the i-th requested id from its search
\* on, and then from the next id on: the search has returned found
Extract(file_ids, i, store1, chunks, files, question, extracted_data, calls, fail_at, nearness, set_order, found) ==
    LET file_id == file_ids[i]
        n == Len(calls) + 1
        ok == CallSucceeds(n, fail_at)
        calls1 == Append(calls,
                         [stage |-> "extraction", file_id |-> file_id,
                          ok |-> ok, position |-> i,
                          scope |-> found.file_ids,
                          context |-> Prefix(found.relevant_context,
                                             ExtractionContextChars),
                          question |-> question])
    IN  IF found.raised
        THEN [conversation_store |-> store1,
              extracted_data |-> extracted_data,
              llm_calls |-> calls, raised |-> TRUE]
        ELSE IF ~ok
        THEN [conversation_store |-> store1,
              extracted_data |-> extracted_data,
              llm_calls |-> calls1, raised |-> TRUE]
        ELSE Stage1(file_ids, i + 1, store1, chunks, files, question,
                    AppendFact(extracted_data,
                               [file_id |-> file_id,
                                extracted_info |-> Answer(n)]),
                    calls1, fail_at, nearness, set_order)

\* chat_with_all_documents, STAGE 1 from the i-th requested id on: the
\* store, the extracted data and the calls so far; raised when the loop
\* was left by an exception
Stage1(file_ids, i, store, chunks, files, question, extracted_data, calls, fail_at, nearness, set_order) ==
    IF i > Len(file_ids)
    THEN [conversation_store |-> store, extracted_data |-> extracted_data,
          llm_calls |-> calls, raised |-> FALSE]
    ELSE
    LET doc == ExtractionText(store, chunks, files, file_ids[i]) IN
    IF doc.todo = "raise"
    THEN [conversation_store |-> store, extracted_data |-> extracted_data,
          llm_calls |-> calls, raised |-> TRUE]
    ELSE IF doc.todo = "skip"
    THEN Stage1(file_ids, i + 1, store, chunks, files, question,
                extracted_data, calls, fail_at, nearness, set_order)
    ELSE Extract(file_ids, i, doc.conversation_store, chunks, files, question,
                 extracted_data, calls, fail_at, nearness, set_order,
                 _find_relevant_context_optimized(
                     chunks, file_ids[i], question, nearness, set_order,
                     DefaultMaxChars))

\* The check of an empty file_ids list
NoDocumentsSelected(file_ids) == Len(file_ids) = 0

NoValidDocumentsNever(extracted_data) == FALSE

\* The check between the two stages: len(extracted_data) == 0
NoValidDocuments(extracted_data) == Len(extracted_data) = 0

SynthesisItemsFirstOnly(extracted_data) == SubSeq(extracted_data, 1, 1)

\* for item in extracted_data: the items the synthesis prompt enumerates
SynthesisItems(extracted_data) == extracted_data

\* chat_with_all_documents, from the end of STAGE 1 on
Stage2(file_ids, store, chunks, question, extracted_data, calls, fail_at) ==
    IF NoValidDocuments(extracted_data)
    THEN Outcome(store, chunks, calls, Failure(404, "No valid documents found"))
    ELSE LET ok == CallSucceeds(Len(calls) + 1, fail_at)
             calls1 == Append(calls, [stage |-> "synthesis",
                                      extracted_data |-> SynthesisItems(extracted_data),
                                      question |-> question,
                                      ok |-> ok])
         IN  IF ~ok
             THEN Outcome(store, chunks, calls1,
                          Failure(500, "Cross-document chat failed"))
             ELSE Outcome(store, chunks, calls1,
                          [status |-> 200, success |-> TRUE,
                           answer |-> Answer(Len(calls1)),
                           documents_analyzed |-> Len(extracted_data),
                           file_ids |-> file_ids])

AbortedNever(s1) == FALSE

\* except Exception: an exception of STAGE 1 leaves the handler
Aborted(s1) == s1.raised

\* chat_with_all_documents, from the end of the loop of STAGE 1 on
AfterStage1(req, chunks, s1, fail_at) ==
    IF Aborted(s1)
    THEN Outcome(s1.conversation_store, chunks, s1.llm_calls,
                 Failure(500, "Cross-document chat failed"))
    ELSE Stage2(req.file_ids, s1.conversation_store, chunks, req.question,
                s1.extracted_data, s1.llm_calls, fail_at)

\* chat_with_all_documents
chat_with_all_documents(store, chunks, files, req, fail_at, nearness, set_order) ==
    IF NoDocumentsSelected(req.file_ids)
    THEN Outcome(store, chunks, <<>>, Failure(400, "No documents selected"))
    ELSE AfterStage1(req, chunks,
                     Stage1(req.file_ids, 1, store, chunks, files, req.question,
                            <<>>, <<>>, fail_at, nearness, set_order),
                     fail_at)

----------------------------------------------------------------------------
(* The service: requests arriving one after the other *)

\* Longest list of ids in a chat-all request
MaxIds == 2

\* Most question-and-answer exchanges kept in one conversation
MaxExchanges == 1

\* The ids the uploads get and the requests name
FileIds == {"1", "2"}

\* The uploaded files: a text file, a text file of white space only and a
\* file the parser cannot read
FilePool ==
    {[format |-> "txt", readable |-> TRUE, text |-> <<"a", " ", "b">>],
     [format |-> "txt", readable |-> TRUE, text |-> <<" ">>],
     [format |-> "pdf", readable |-> FALSE, text |-> <<>>]}

\* conversation_id of a chat request: none, or a string of the client's
ConversationIds == {"", "doc_2"}

\* The conversation ids of the history requests
HistoryIds == {"conv_1", "doc_2"}

\* The ids of the chunks the uploads of the pool can give
ChunkIds ==
    {c.id : c \in UNION {StoredChunks(file_id, _chunk_text(Strip(file.text)), NoDict) :
                            file_id \in FileIds, file \in FilePool}}

\* The orders in which the index can rank the chunks of the given ids for a
\* question, file by file: every search of the handlers is scoped to one
\* file id
NearnessOn(ids) ==
    {n \in [ids -> 1..Cardinality(ids)] :
        /\ \A x, y \in ids : x[1] = y[1] /\ n[x] = n[y] => x = y
        /\ \A x \in ids : n[x] <= Cardinality({y \in ids : y[1] = x[1]})}

Nearness == NearnessOn(ChunkIds)

scorerVars == <<vector_results, query_terms, keyword_scores, metadata_scores,
                search_results, context>>

Init ==
    /\ pc = "started"
    /\ request = NoDict
    /\ vector_results = <<>>
    /\ IdleScorers
    /\ search_results = <<>>
    /\ IdleContext
    /\ IdleStore

\* A file id that was never given out: uuid4 gives every upload a new one
Unused(file_id) ==
    /\ file_id \notin DOMAIN uploads
    /\ ~HasChunks(collection, file_id)
    /\ CacheKey(file_id) \notin DOMAIN conversation_store
    /\ ConvKey(file_id) \notin DOMAIN conversation_store

\* A request that makes no search leaves nothing in the search stage
NoSearch ==
    /\ vector_results' = <<>>
    /\ query_terms' = <<>>
    /\ keyword_scores' = NoDict
    /\ metadata_scores' = NoDict
    /\ search_results' = <<>>
    /\ context' = NoDict

\* POST /upload
Upload ==
    \E file_id \in FileIds, file \in FilePool :
        /\ Unused(file_id)
        /\ pc' = "upload_done"
        /\ request' = [file |-> file]
        /\ uploads' = Put(uploads, file_id, file)
        /\ llm_calls' = <<>>
        /\ query_log' = <<>>
        /\ response' = [status |-> 200, success |-> TRUE, file_id |-> file_id]
        /\ UNCHANGED <<collection, conversation_store>>
        /\ NoSearch

\* DELETE /upload/{file_id}
DeleteFile ==
    \E file_id \in FileIds :
        /\ pc' = "delete_file_done"
        /\ request' = [file_id |-> file_id]
        /\ uploads' = Without(uploads, file_id)
        /\ llm_calls' = <<>>
        /\ query_log' = <<>>
        /\ response' = IF file_id \in DOMAIN uploads
                       THEN [status |-> 200, success |-> TRUE, file_id |-> file_id]
                       ELSE Failure(404, "File not found")
        /\ UNCHANGED <<collection, conversation_store>>
        /\ NoSearch

\* DELETE /documents/{file_id}
DeleteDocument ==
    \E file_id \in FileIds :
        /\ pc' = "delete_document_done"
        /\ request' = [file_id |-> file_id]
        /\ uploads' = Without(uploads, file_id)
        /\ collection' = IF file_id \in DOMAIN uploads
                         THEN remove_document(collection, file_id)
                         ELSE collection
        /\ llm_calls' = <<>>
        /\ query_log' = <<>>
        /\ response' = IF file_id \in DOMAIN uploads
                       THEN [status |-> 200, success |-> TRUE, file_id |-> file_id]
                       ELSE Failure(404, "Document not found")
        /\ UNCHANGED conversation_store
        /\ NoSearch

\* The conversation a chat request would use has room for one more exchange
HasRoom(file_id, conversation_id) ==
    LET conv_id == IF conversation_id # "" THEN conversation_id ELSE ConvKey(file_id)
    IN  conv_id \in DOMAIN conversation_store
        /\ conversation_store[conv_id].kind = "list"
            => Len(conversation_store[conv_id].items) < 2 * MaxExchanges

\* POST /chat with a question of the set
ChatAbout(questions) ==
    \E file_id \in FileIds, conversation_id \in ConversationIds,
       question \in questions, llm_ok \in BOOLEAN, nearness \in Nearness :
      \E set_order \in OrdersOf(question) :
        LET req == [file_id |-> file_id, question |-> question,
                    conversation_id |-> conversation_id]
        IN \E out \in {chat_with_document(conversation_store, collection, uploads,
                                      req, llm_ok, nearness, set_order)} :
            /\ llm_ok => HasRoom(file_id, conversation_id)
            /\ pc' = "chat_done"
            /\ request' = req
            /\ conversation_store' = out.conversation_store
            /\ collection' = out.collection
            /\ llm_calls' = out.llm_calls
            /\ query_log' = out.query_log
            /\ response' = out.response
            /\ vector_results' = out.found.vector_results
            /\ query_terms' = out.found.expanded_terms
            /\ keyword_scores' = out.found.keyword_scores
            /\ metadata_scores' = out.found.metadata_scores
            /\ search_results' = out.found.search_results
            /\ context' = out.found.context
            /\ UNCHANGED uploads

\* POST /chat
Chat == ChatAbout({Question})

\* POST /chat-all with a question of the set; what its searches found is kept
\* with the calls
ChatAllAbout(questions) ==
    \E file_ids \in SeqsOf(FileIds, 0, MaxIds), question \in questions,
       fail_at \in 0..(MaxIds + 1), nearness \in Nearness :
      \E set_order \in OrdersOf(question) :
        LET req == [file_ids |-> file_ids, question |-> question]
        IN \E out \in {chat_with_all_documents(conversation_store, collection,
                                           uploads, req, fail_at, nearness, set_order)} :
            /\ pc' = "chat_all_done"
            /\ request' = req
            /\ conversation_store' = out.conversation_store
            /\ collection' = out.collection
            /\ llm_calls' = out.llm_calls
            /\ query_log' = out.query_log
            /\ response' = out.response
            /\ UNCHANGED uploads
            /\ NoSearch

\* POST /chat-all
ChatAll == ChatAllAbout({Question})

\* GET /chat/{conversation_id}/history
GetHistory ==
    \E conversation_id \in HistoryIds :
        /\ pc' = "get_history_done"
        /\ request' = [conversation_id |-> conversation_id]
        /\ llm_calls' = <<>>
        /\ query_log' = <<>>
        /\ response' = get_chat_history(conversation_store, conversation_id)
        /\ UNCHANGED <<collection, uploads, conversation_store>>
        /\ NoSearch

\* DELETE /chat/{conversation_id}
ClearHistory ==
    \E conversation_id \in HistoryIds :
        /\ pc' = "clear_history_done"
        /\ request' = [conversation_id |-> conversation_id]
        /\ conversation_store' = clear_chat_history(conversation_store, conversation_id)
        /\ llm_calls' = <<>>
        /\ query_log' = <<>>
        /\ response' = [status |-> 200, success |-> TRUE,
                        conversation_id |-> conversation_id]
        /\ UNCHANGED <<collection, uploads>>
        /\ NoSearch

Next ==
    \/ Upload
    \/ DeleteFile
    \/ DeleteDocument
    \/ Chat
    \/ ChatAll

Spec == Init /\ [][Next]_vars

\* The requests on the conversations and the cached document texts
Next_Conversations ==
    \/ Upload
    \/ Chat
    \/ ChatAll
    \/ GetHistory
    \/ ClearHistory

SpecConversations == Init /\ [][Next_Conversations]_vars

----------------------------------------------------------------------------
(* Properties of chat-all *)

\* The positions of the request's ids that have both an uploaded file and
\* ingested chunks
Survivors ==
    {i \in 1..Len(request.file_ids) :
        /\ request.file_ids[i] \in DOMAIN uploads
        /\ HasChunks(collection, request.file_ids[i])}

AllCallsSucceeded == \A i \in 1..Len(llm_calls) : llm_calls[i].ok

\* C7: in a chat-all request whose LLM calls all succeed, an id without an
\* uploaded file or without ingested chunks is skipped without aborting the
\* batch: a request with at least one id that has both is answered, and the
\* documents_analyzed of every answer is the number of requested ids that
\* have both an uploaded file and ingested chunks.
C7_AnalyzedCountsIngestedDocuments ==
    pc = "chat_all_done" /\ AllCallsSucceeded =>
        /\ Survivors # {} => response.status = 200
        /\ response.status = 200 =>
               response.documents_analyzed = Cardinality(Survivors)

\* No Stage 1 call of the request gave a fact
NoFactExtracted ==
    \A i \in 1..Len(llm_calls) :
        llm_calls[i].stage = "extraction" => ~llm_calls[i].ok

Stage2Issued == \E i \in 1..Len(llm_calls) : llm_calls[i].stage = "synthesis"

NoValidDocumentsError ==
    /\ response.status = 404
    /\ response.detail = "No valid documents found"

\* C8 as stated: a chat-all request over a non-empty id list in which no
\* requested document yields an extracted fact fails with the "no valid
\* documents" error, and its Stage 2 call is never issued.
C8_NoFactIsNoValidDocuments ==
    pc = "chat_all_done" /\ request.file_ids # <<>> /\ NoFactExtracted =>
        NoValidDocumentsError /\ ~Stage2Issued

\* Stage 1 passes over the id: no uploaded file, or neither a cached text
\* nor an ingested chunk
Skipped(file_id) ==
    \/ file_id \notin DOMAIN uploads
    \/ /\ CacheKey(file_id) \notin DOMAIN conversation_store
       /\ ~HasChunks(collection, file_id)

AllSkipped ==
    /\ request.file_ids # <<>>
    /\ \A i \in 1..Len(request.file_ids) : Skipped(request.file_ids[i])

\* C8, amended: a chat-all request over a non-empty id list every id of
\* which is skipped (no uploaded file, or neither a cached text nor an
\* ingested chunk) fails with the "no valid documents" error without any LLM
\* call; and no chat-all request that extracted no fact, however it ends,
\* issues the Stage 2 call.
C8_AllSkippedIsNoValidDocuments ==
    pc = "chat_all_done" =>
        /\ AllSkipped => NoValidDocumentsError /\ llm_calls = <<>>
        /\ NoFactExtracted => ~Stage2Issued

\* Two ids requested, one never uploaded and one uploaded but not ingested,
\* and the request has failed with the "no valid documents" error
C8_Witness ==
    /\ pc = "chat_all_done"
    /\ AllSkipped
    /\ \E i, j \in 1..Len(request.file_ids) :
          /\ request.file_ids[i] \notin DOMAIN uploads
          /\ request.file_ids[j] \in DOMAIN uploads
    /\ NoValidDocumentsError

----------------------------------------------------------------------------
(* The chunk store under add_document, remove_document and a reader.  An   *)
(* add_document is two operations on the collection, the delete of         *)
(* remove_document and the collection.add, with no lock around them; a     *)
(* reader of the same collection (collection.get of chat.py and of the     *)
(* inspection scripts) may come between them.                              *)

\* Length of the paragraphs of the long text
ParagraphLen == 300

\* The texts ingested, all of them stripped: the empty text, one word, two
\* short paragraphs, and two paragraphs that do not fit one chunk
IngestTextPool ==
    {<<>>,
     <<"a">>,
     <<"a", "\n", "\n", "b">>,
     Rep(1, ParagraphLen) \o <<"\n", "\n">> \o Rep(2, ParagraphLen)}

Init_Ingest ==
    /\ pc = "store_idle"
    /\ request = NoDict
    /\ vector_results = <<>>
    /\ IdleScorers
    /\ search_results = <<>>
    /\ IdleContext
    /\ IdleStore

ingestIdle == <<vector_results, query_terms, keyword_scores, metadata_scores,
                search_results, context, uploads, conversation_store, llm_calls,
                query_log>>

\* add_document, its first operation: self.remove_document(file_id)
AddDocumentRemove ==
    /\ pc = "store_idle"
    /\ \E file_id \in FileIds, text \in IngestTextPool :
         \E metadata \in ExtraMetadata(file_id) :
           /\ request' = [op |-> "add_document", file_id |-> file_id,
                          text |-> text, metadata |-> metadata,
                          before |-> ChunksOf(collection, file_id)]
           /\ collection' = remove_document(collection, file_id)
    /\ pc' = "add_removed"
    /\ response' = NoDict
    /\ UNCHANGED ingestIdle

\* add_document, the rest of it: chunking and collection.add
AddDocumentInsert ==
    /\ pc = "add_removed"
    /\ collection' = InsertChunks(collection, request.file_id, request.text,
                                  request.metadata)
    /\ pc' = "store_idle"
    /\ UNCHANGED <<request, response>>
    /\ UNCHANGED ingestIdle

\* remove_document called on its own
RemoveDocument ==
    /\ pc = "store_idle"
    /\ \E file_id \in FileIds :
         /\ request' = [op |-> "remove_document", file_id |-> file_id]
         /\ collection' = remove_document(collection, file_id)
    /\ response' = NoDict
    /\ UNCHANGED pc
    /\ UNCHANGED ingestIdle

\* A reader's collection.get(where={"file_id": file_id}), at any moment
ReadChunks ==
    /\ \E file_id \in FileIds :
         response' = [file_id |-> file_id, chunks |-> ChunksOf(collection, file_id)]
    /\ UNCHANGED <<pc, request, collection>>
    /\ UNCHANGED ingestIdle

Next_Ingest ==
    \/ AddDocumentRemove
    \/ AddDocumentInsert
    \/ RemoveDocument
    \/ ReadChunks

SpecIngest == Init_Ingest /\ [][Next_Ingest]_vars

\* The last call on the store is an add_document that has returned
AddReturned ==
    /\ pc = "store_idle"
    /\ request # NoDict
    /\ request.op = "add_document"

\* The chunks the add_document under way, or just returned, is to store
ChunksToStore ==
    InsertChunks({}, request.file_id, request.text, request.metadata)

\* C11: after add_document has ingested a text, the stored chunks of that
\* document, taken in chunk_index order and joined with two newlines, are
\* the ingested text exactly.
C11_RoundTrip ==
    AddReturned => Reconstruct(collection, request.file_id) = request.text

\* C12: between the calls of add_document and remove_document, the chunks
\* stored for each document id carry the chunk_index values 0..N-1, each
\* once, N being the number of chunks stored for the id, and every one of
\* them carries total_chunks = N.
C12_ChunksNumbered ==
    pc = "store_idle" =>
        \A f \in FileIds :
            LET S == ChunksOf(collection, f)
                N == Cardinality(S)
            IN  /\ {c.metadata.chunk_index : c \in S} = 0..(N - 1)
                /\ \A c \in S : c.metadata.total_chunks = N

\* A document of two chunks has been ingested again with a text of one
\* chunk, while the other document has chunks as well
C12_Witness ==
    /\ AddReturned
    /\ Cardinality(request.before) = 2
    /\ Cardinality(ChunksOf(collection, request.file_id)) = 1
    /\ \E f \in FileIds : f # request.file_id /\ Cardinality(ChunksOf(collection, f)) = 2

\* C13: a read of the chunks of a document id that comes while add_document
\* runs for that id sees the chunks the id had before the call or the chunks
\* of the new ingestion, never the store in between; and once add_document
\* has returned, the stored chunks of the id are those of that ingestion.
C13_ReingestLooksAtomic ==
    /\ pc = "add_removed" /\ response # NoDict /\ response.file_id = request.file_id
           => response.chunks \in {request.before, ChunksToStore}
    /\ AddReturned => ChunksOf(collection, request.file_id) = ChunksToStore

----------------------------------------------------------------------------
(* analyze applied to questions *)

\* Most words of a question built from the word pool
MaxWords == 2

\* Compare, sales, What, EBITDA, margin, highest, resales, calculate, net,
\* income, which
WordPool ==
    {
     <<"C", "o", "m", "p", "a", "r", "e">>,
     <<"s", "a", "l", "e", "s">>,
     <<"W", "h", "a", "t">>,
     <<"E", "B", "I", "T", "D", "A">>,
     <<"m", "a", "r", "g", "i", "n">>,
     <<"h", "i", "g", "h", "e", "s", "t">>,
     <<"r", "e", "s", "a", "l", "e", "s">>,
     <<"c", "a", "l", "c", "u", "l", "a", "t", "e">>,
     <<"n", "e", "t">>,
     <<"i", "n", "c", "o", "m", "e">>,
     <<"w", "h", "i", "c", "h">>
    }

\* "Compare revenue between 2022 and 2023"
CompareRevenueQuestion ==
    <<"C", "o", "m", "p", "a", "r", "e", " ", "r", "e", "v", "e", "n", "u", "e", " ", 
      "b", "e", "t", "w", "e", "e", "n", " ", 
      "2", "0", "2", "2", " ", "a", "n", "d", " ", "2", "0", "2", "3">>

\* "What was the EBITDA?"
EbitdaQuestion ==
    <<"W", "h", "a", "t", " ", "w", "a", "s", " ", "t", "h", "e", " ", "E", "B", "I", "T", "D", "A", "?">>

\* "net income margin"
NetIncomeMarginQuestion ==
    <<"n", "e", "t", " ", "i", "n", "c", "o", "m", "e", " ", "m", "a", "r", "g", "i", "n">>

\* The questions: up to MaxWords words of the pool with a space between
\* them, and the three questions above
Questions ==
    {Join(ws, <<" ">>) : ws \in SeqsOf(WordPool, 0, MaxWords)}
    \cup {CompareRevenueQuestion, EbitdaQuestion, NetIncomeMarginQuestion}

Init_Analyze ==
    /\ pc = "analyze_ready"
    /\ request \in [query : Questions, set_order : {"asc", "desc"}]
    /\ vector_results = <<>>
    /\ IdleScorers
    /\ search_results = <<>>
    /\ IdleContext
    /\ IdleStore

Analyze ==
    /\ pc = "analyze_ready"
    /\ pc' = "analyze_done"
    /\ response' = analyze(request.query, request.set_order)
    /\ UNCHANGED <<request, collection, uploads, conversation_store, llm_calls,
                   query_log>>
    /\ UNCHANGED scorerVars

Next_Analyze == Analyze

SpecAnalyze == Init_Analyze /\ [][Next_Analyze]_vars

\* The four verb sets in the order of their priority, each with its intent
IntentSets ==
    <<[intent |-> "compare", verbs |-> COMPARISON_VERBS],
      [intent |-> "calculate", verbs |-> CALCULATION_VERBS],
      [intent |-> "summarize", verbs |-> SUMMARY_VERBS],
      [intent |-> "extract", verbs |-> EXTRACTION_VERBS]>>

\* The sets with a verb that occurs in the lower-cased question
MatchingSets ==
    {k \in DOMAIN IntentSets : AnyIn(IntentSets[k].verbs, Lower(request.query))}

\* C14: the intent analyze returns is that of the first of the comparison,
\* calculation, summary and extraction verb sets with a match in the
\* lower-cased question, whatever later sets match, and it is 'question'
\* exactly when no set matches; "Compare revenue between 2022 and 2023"
\* gives 'compare' and "What was the EBITDA?" gives 'extract'.
C14_IntentByPriority ==
    pc = "analyze_done" =>
        /\ response.intent = "question" <=> MatchingSets = {}
        /\ MatchingSets # {} =>
               \E k \in MatchingSets :
                   /\ response.intent = IntentSets[k].intent
                   /\ \A j \in MatchingSets : k <= j
        /\ request.query = CompareRevenueQuestion => response.intent = "compare"
        /\ request.query = EbitdaQuestion => response.intent = "extract"

\* A question with a comparison verb and an extraction verb has been analysed
C14_Witness ==
    /\ pc = "analyze_done"
    /\ {1, 4} \subseteq MatchingSets
    /\ response.intent = "compare"

\* C15: the keywords analyze returns are canonical terms (keys of
\* FINANCIAL_METRICS), none of them twice, and a canonical term is among them
\* exactly when a term that term_to_canonical maps to it, the term itself or
\* one of its synonyms, occurs in the lower-cased question as a whole word.
C15_KeywordsAreCanonical ==
    pc = "analyze_done" =>
        LET kw == response.keywords
            q == Lower(request.query)
        IN  /\ \A i \in DOMAIN kw : IsCanonical(kw[i])
            /\ \A i, j \in DOMAIN kw : kw[i] = kw[j] => i = j
            /\ \A e \in DOMAIN FINANCIAL_METRICS :
                   FINANCIAL_METRICS[e].canonical \in Range(kw)
                   <=> \E k \in DOMAIN term_to_canonical :
                           /\ term_to_canonical[k].canonical
                                  = FINANCIAL_METRICS[e].canonical
                           /\ WholeWord(term_to_canonical[k].term, q)

\* The question has the synonyms 'sales' and 'income' as whole words and not
\* 'revenue' itself, and the keywords are 'revenue', once
C15_Witness ==
    /\ pc = "analyze_done"
    /\ WholeWord(FINANCIAL_METRICS[1].synonyms[1], Lower(request.query))
    /\ WholeWord(FINANCIAL_METRICS[1].synonyms[2], Lower(request.query))
    /\ ~WholeWord(FINANCIAL_METRICS[1].canonical, Lower(request.query))
    /\ response.keywords = <<FINANCIAL_METRICS[1].canonical>>

\* C16: the expanded_terms analyze returns are, as a set, the union over the
\* detected keywords of the keyword and all of its synonyms, and no term is
\* in the list twice.
C16_ExpandedIsUnionOfSynonyms ==
    pc = "analyze_done" =>
        LET kw == response.keywords
            ex == response.expanded_terms
        IN  /\ Range(ex) = UNION {{kw[k]} \cup Range(SynonymsOf(kw[k])) : k \in DOMAIN kw}
            /\ Len(ex) = Cardinality(Range(ex))

\* 'profit' and 'margin' are both detected: 'margin' is a keyword and a
\* synonym of the keyword 'profit'
C16_Witness ==
    /\ pc = "analyze_done"
    /\ FINANCIAL_METRICS[2].canonical \in Range(response.keywords)
    /\ FINANCIAL_METRICS[14].canonical \in Range(response.keywords)
    /\ FINANCIAL_METRICS[14].canonical \in Range(FINANCIAL_METRICS[2].synonyms)
    /\ response.expanded_terms # <<>>

\* C17: the cross-document flag analyze returns is true exactly when the
\* lower-cased question contains a phrase of the indicator list, whatever
\* the intent and the action verbs are.
C17_CrossDocumentByIndicators ==
    pc = "analyze_done" =>
        response.is_cross_document
            = AnyIn(cross_doc_indicators, Lower(request.query))

\* A question without any action verb, of intent 'question', is flagged
C17_Witness ==
    /\ pc = "analyze_done"
    /\ response.is_cross_document
    /\ response.action_verbs = <<>>
    /\ response.intent = "question"

----------------------------------------------------------------------------
(* The input of the chat requests: questions that may be empty *)

\* POST /chat with any question of the pool
ChatAnyQuestion == ChatAbout(QuestionPool)

\* POST /chat-all with any question of the pool
ChatAllAnyQuestion == ChatAllAbout(QuestionPool)

Next_Questions ==
    \/ Upload
    \/ ChatAnyQuestion
    \/ ChatAllAnyQuestion

SpecQuestions == Init /\ [][Next_Questions]_vars

\* The request was refused as invalid input
RejectedAsInvalid == response.status \in {400, 422}

\* C21: a chat or chat-all request with an empty question, and a chat-all
\* request with an empty document-id list, is rejected as invalid input
\* before any vector search or LLM call is made.
C21_EmptyInputRejected ==
    \/ pc \in {"chat_done", "chat_all_done"} /\ request.question = <<>>
    \/ pc = "chat_all_done" /\ request.file_ids = <<>>
    => /\ RejectedAsInvalid
       /\ llm_calls = <<>>
       /\ vector_results = <<>>

----------------------------------------------------------------------------
(* The record of an answered chat question *)

\* The record carries the field with the value the fusion gave the chunk
Carries(item, result, field) ==
    field \in DOMAIN item /\ item[field] = result[field]

\* C22: for every answered chat question, the record handed to the query
\* logger carries, for each returned chunk, its vector score, keyword score,
\* metadata score and final score, each equal to the value computed by the
\* fusion engine for that chunk.
C22_LoggedScoresAreFused ==
    pc = "chat_done" /\ response.status = 200 =>
        /\ Len(query_log) = 1
        /\ Len(query_log[1].vector_results) = Len(search_results)
        /\ \A i \in 1..Len(search_results) :
              \A field \in {"vector_score", "keyword_score", "metadata_score", "score"} :
                  Carries(query_log[1].vector_results[i], search_results[i], field)

----------------------------------------------------------------------------
(* The two stages of chat-all *)

\* The positions of the Stage 2 calls among the LLM calls of the request
SynthesisCalls == {i \in 1..Len(llm_calls) : llm_calls[i].stage = "synthesis"}

\* The fact Stage 1 keeps of its successful call number j
FactOfCall(j) ==
    [file_id |-> llm_calls[j].file_id, extracted_info |-> Answer(j)]

\* C23: in every chat-all request the Stage 2 synthesis call is issued only
\* after every Stage 1 extraction call of the request has completed (it is
\* the last call and every call before it is an extraction that succeeded),
\* exactly one synthesis call is issued per successful request, and its
\* prompt contains every extracted fact of Stage 1.
C23_SynthesisAfterExtraction ==
    pc = "chat_all_done" =>
        /\ \A i \in SynthesisCalls :
              /\ i = Len(llm_calls)
              /\ \A j \in 1..(i - 1) :
                    /\ llm_calls[j].stage = "extraction"
                    /\ llm_calls[j].ok
                    /\ \E k \in DOMAIN llm_calls[i].extracted_data :
                          llm_calls[i].extracted_data[k] = FactOfCall(j)
        /\ response.status = 200 => Cardinality(SynthesisCalls) = 1

\* A chat-all request over two documents has been answered after two
\* extraction calls and the synthesis call
C23_Witness ==
    /\ pc = "chat_all_done"
    /\ response.status = 200
    /\ Len(llm_calls) = 3
    /\ llm_calls[1].file_id # llm_calls[2].file_id
    /\ llm_calls[3].stage = "synthesis"

----------------------------------------------------------------------------
(* LLM calls that fail *)

\* The conversation id a chat request uses
ConvIdOf(req) ==
    IF req.conversation_id # "" THEN req.conversation_id ELSE ConvKey(req.file_id)

\* The messages get_chat_history gives for a conversation id: none for an
\* id the store does not have
HistoryOf(store, conv_id) ==
    IF conv_id \in DOMAIN store /\ store[conv_id].kind = "list"
    THEN store[conv_id].items
    ELSE <<>>

\* The positions of the failed calls among the LLM calls of a request
FailedCalls(calls) == {i \in 1..Len(calls) : ~calls[i].ok}

\* A chat or chat-all request in which an LLM call failed ends with an error
\* and no answer, the failed call is its last call, and a chat request
\* leaves the messages of its conversation as they were
FailedCallAborts ==
    pc' \in {"chat_done", "chat_all_done"} /\ FailedCalls(llm_calls') # {} =>
        /\ response'.status = 500
        /\ "answer" \notin DOMAIN response'
        /\ FailedCalls(llm_calls') = {Len(llm_calls')}
        /\ query_log' = <<>>
        /\ pc' = "chat_done" =>
              HistoryOf(conversation_store', ConvIdOf(request'))
                  = HistoryOf(conversation_store, ConvIdOf(request'))

\* C24: if an LLM call fails or times out, the request is aborted with an
\* error surfaced to the caller and no answer: in chat-all a failure of any
\* Stage 1 extraction call of a loadable document or of the Stage 2 call
\* aborts the whole request (no call follows the failed one, so the facts
\* already extracted are not used), and in chat a failed generation call
\* leaves the conversation's message history unchanged.
C24_FailedCallAbortsRequest == [][FailedCallAborts]_vars

\* A chat-all request has failed at its second extraction call, after a
\* fact was extracted from another document
C24_Witness ==
    /\ pc = "chat_all_done"
    /\ Len(llm_calls) = 2
    /\ llm_calls[1].ok /\ ~llm_calls[2].ok
    /\ llm_calls[2].stage = "extraction"
    /\ llm_calls[1].file_id # llm_calls[2].file_id
    /\ response.status = 500

\* A chat request has failed at its generation call in a conversation that
\* has messages
C24_ChatFailedWithHistory ==
    /\ pc = "chat_done"
    /\ FailedCalls(llm_calls) # {}
    /\ HistoryOf(conversation_store, ConvIdOf(request)) # <<>>

----------------------------------------------------------------------------
(* A chat request on a document without chunks *)

\* The chat request got as far as its search, and the index has no chunk of
\* the document: the file is uploaded, its text is cached, the conversation
\* is a list of messages, and the collection holds no chunk of the file id
NoCandidateCase ==
    /\ pc = "chat_done"
    /\ request.file_id \in DOMAIN uploads
    /\ CacheKey(request.file_id) \in DOMAIN conversation_store
    /\ conversation_store[CacheKey(request.file_id)].kind = "dict"
    /\ ConvIdOf(request) \in DOMAIN conversation_store
    /\ conversation_store[ConvIdOf(request)].kind = "list"
    /\ ~HasChunks(collection, request.file_id)

\* C25: when the vector index returns no candidate for the scope, search
\* returns an empty list without running BM25, metadata boosting or fusion,
\* context assembly yields an empty context, and the single-document chat
\* request is not failed: it still issues the generation call with the empty
\* context and, when that call succeeds, returns its answer.
C25_NoCandidateStillAnswers ==
    NoCandidateCase =>
        /\ vector_results = <<>>
        /\ keyword_scores = NoDict
        /\ metadata_scores = NoDict
        /\ search_results = <<>>
        /\ context = NoDict
        /\ Len(llm_calls) = 1
        /\ llm_calls[1].stage = "chat"
        /\ llm_calls[1].context = <<>>
        /\ llm_calls[1].ok =>
              /\ response.status = 200
              /\ "answer" \in DOMAIN response

\* A chat request on an uploaded file of white space only, which has no
\* chunk, has been answered while another document has chunks
C25_Witness ==
    /\ NoCandidateCase
    /\ collection # {}
    /\ response.status = 200

----------------------------------------------------------------------------
(* The order of the context assembly *)

\* Characters of the texts of the first k results
CharsOfFirst(k) == SumSeq([i \in 1..k |-> Len(search_results[i].text)])

\* The ranks whose result, added whole after all the results before it,
\* would overflow the budget
Overflowing ==
    {k \in 1..Len(search_results) : CharsOfFirst(k) > request.max_chars}

\* The rank of the first overflowing result, one past the last rank without
FirstOverflow ==
    IF Overflowing = {} THEN Len(search_results) + 1
    ELSE CHOOSE k \in Overflowing : \A j \in Overflowing : k <= j

\* The space left when the first overflowing result is met
RemainingAtOverflow == request.max_chars - CharsOfFirst(FirstOverflow - 1)

\* C26: context assembly takes results strictly in rank order and stops at
\* the first result whose full text would overflow the budget: the fragments
\* are the whole texts of the results ranked before it, in rank order, then
\* the prefix of that result that fills the remaining space only if the
\* remaining space is greater than 100 characters, and no result ranked
\* after the first overflowing one ever appears in the context, even if it
\* would fit.
C26_StopsAtFirstOverflow ==
    pc = "context_done" =>
        LET k == FirstOverflow
            fragments == context.combined_chunks
        IN  /\ \A i \in 1..(k - 1) :
                  i <= Len(fragments) /\ fragments[i] = search_results[i].text
            /\ IF k <= Len(search_results) /\ RemainingAtOverflow > 100
               THEN /\ Len(fragments) = k
                    /\ fragments[k] = Prefix(search_results[k].text, RemainingAtOverflow)
               ELSE Len(fragments) = k - 1
            /\ context.text = Join(fragments, <<"\n", "\n">>)

\* The second of three results overflows with no more than 100 characters
\* left, the third would fit in what is left, and the context is the first
\* result alone
C26_Witness ==
    /\ pc = "context_done"
    /\ Len(search_results) = 3
    /\ FirstOverflow = 2
    /\ RemainingAtOverflow <= 100
    /\ Len(search_results[3].text) <= RemainingAtOverflow
    /\ context.combined_chunks = <<search_results[1].text>>

----------------------------------------------------------------------------
(* The order of Stage 1 *)

\* The positions of the Stage 1 calls among the LLM calls of the request
ExtractionCalls == {i \in 1..Len(llm_calls) : llm_calls[i].stage = "extraction"}

\* The positions of the request's id list that Stage 1 does not skip
NotSkipped ==
    {p \in 1..Len(request.file_ids) : ~Skipped(request.file_ids[p])}

\* C27: Stage 1 of chat-all is order-preserving: the extraction calls, the
\* extracted facts and their enumeration in the synthesis prompt follow the
\* order of the request's document-id list restricted to the documents that
\* were not skipped, and each fact is produced from a search scoped to that
\* single document id.
C27_Stage1KeepsRequestOrder ==
    pc = "chat_all_done" =>
        /\ \A i \in ExtractionCalls :
              /\ llm_calls[i].position \in NotSkipped
              /\ llm_calls[i].file_id = request.file_ids[llm_calls[i].position]
              /\ llm_calls[i].scope = <<llm_calls[i].file_id>>
        /\ \A i, j \in ExtractionCalls :
              i < j => llm_calls[i].position < llm_calls[j].position
        /\ \A i \in SynthesisCalls :
              /\ {llm_calls[j].position : j \in ExtractionCalls} = NotSkipped
              /\ llm_calls[i].extracted_data =
                     [k \in 1..Cardinality(ExtractionCalls) |-> FactOfCall(k)]

\* A chat-all request for document 2, then document 1, has been answered
C27_Witness ==
    /\ pc = "chat_all_done"
    /\ request.file_ids = <<"2", "1">>
    /\ response.status = 200
    /\ Len(llm_calls) = 3

----------------------------------------------------------------------------
(* The two kinds of entry of conversation_store *)

\* The request reads the entry of the file id as a cached document: the file
\* is uploaded and the store has an entry under its cache key
ReadsCachedDocument(file_id) ==
    /\ file_id \in DOMAIN uploads
    /\ CacheKey(file_id) \in DOMAIN conversation_store

\* Every entry a request reads as a cached document is a document-text
\* record: the entry of the file of a chat request and of the first file of a
\* chat-all request
CachedDocumentsAreTexts ==
    /\ pc' = "chat_done" /\ ReadsCachedDocument(request'.file_id) =>
          conversation_store[CacheKey(request'.file_id)].kind = "dict"
    /\ pc' = "chat_all_done" /\ request'.file_ids # <<>>
           /\ ReadsCachedDocument(request'.file_ids[1]) =>
          conversation_store[CacheKey(request'.file_ids[1])].kind = "dict"

\* Every entry a request reads or appends to as a conversation is a message
\* list: the entry of the conversation id of a chat request that has the text
\* of its document, and the entry get-history returns
ConversationsAreLists ==
    /\ /\ pc' = "chat_done"
       /\ request'.file_id \in DOMAIN uploads
       /\ CacheKey(request'.file_id) \in DOMAIN conversation_store'
       /\ conversation_store'[CacheKey(request'.file_id)].kind = "dict"
       => conversation_store'[ConvIdOf(request')].kind = "list"
    /\ pc' = "get_history_done" => response'.messages.kind = "list"

\* Clearing a conversation removes no cached document text
ClearKeepsDocuments ==
    pc' = "clear_history_done" =>
        \A key \in DOMAIN conversation_store :
            conversation_store[key].kind = "dict" =>
                key \in DOMAIN conversation_store'

\* C28: the in-process store shared by conversations and cached document
\* texts keeps the two kinds of entry apart: after any sequence of chat,
\* chat-all, get-history and clear-history requests with arbitrary
\* client-supplied conversation ids and file ids, every entry read as a
\* cached document is a document-text record, every entry read or appended
\* to as a conversation is a message list, and clearing a conversation never
\* removes a cached document text.
C28_StoreKeepsKindsApart ==
    [][CachedDocumentsAreTexts /\ ConversationsAreLists /\ ClearKeepsDocuments]_vars

----------------------------------------------------------------------------
(* The messages a chat request appends *)

\* The two messages of the exchange a chat request has just made
ExchangeOf(req, resp) ==
    <<[role |-> "user", content |-> req.question],
      [role |-> "assistant", content |-> resp.answer]>>

\* A successful chat request appends its exchange to its conversation, a
\* failed one appends nothing, and either leaves every other history alone
ChatAppendsExchange ==
    pc' = "chat_done" =>
        LET conv_id == ConvIdOf(request')
            before == HistoryOf(conversation_store, conv_id)
            after == HistoryOf(conversation_store', conv_id)
        IN  /\ response'.status = 200 =>
                  after = before \o ExchangeOf(request', response')
            /\ response'.status # 200 => after = before
            /\ \A other \in (DOMAIN conversation_store
                                \cup DOMAIN conversation_store') \ {conv_id} :
                  HistoryOf(conversation_store', other)
                      = HistoryOf(conversation_store, other)

\* Every history has even length and alternates user, assistant
HistoriesAlternate ==
    \A key \in DOMAIN conversation_store :
        LET items == HistoryOf(conversation_store, key) IN
        /\ Len(items) % 2 = 0
        /\ \A i \in 1..Len(items) :
              items[i].role = IF i % 2 = 1 THEN "user" ELSE "assistant"

----------------------------------------------------------------------------
(* _find_relevant_context_optimized applied to questions and collections *)

Sales == <<"s", "a", "l", "e", "s">>

\* The chunk texts: "a" and "sales"
RetrieveTextPool == {<<"a">>, Sales}

\* The questions: "a", "A" and "resales", which have no term of the
\* dictionary, and "sales", which is one
RetrieveQuestions == {<<"a">>, <<"A">>, <<"r", "e">> \o Sales, Sales}

\* The collections with up to MaxChunks chunks of file 1 and up to one of
\* file 2
RetrieveCollections ==
    {c1 \cup c2 :
        c1 \in {StoredChunks("1", t, e) :
                    t \in SeqsOf(RetrieveTextPool, 0, MaxChunks),
                    e \in ExtraMetadata("1")},
        c2 \in {StoredChunks("2", t, [format |-> "txt"]) :
                    t \in SeqsOf({Sales}, 0, 1)}}

Init_Retrieve ==
    /\ pc = "retrieve_ready"
    /\ request \in [file_id : {"1"}, question : RetrieveQuestions]
    /\ collection \in RetrieveCollections
    /\ vector_results = <<>>
    /\ IdleScorers
    /\ search_results = <<>>
    /\ IdleContext
    /\ uploads = NoDict
    /\ conversation_store = NoDict
    /\ llm_calls = <<>>
    /\ query_log = <<>>
    /\ response = NoDict

Retrieve ==
    /\ pc = "retrieve_ready"
    /\ \E nearness \in NearnessOn({c.id : c \in collection}),
          set_order \in OrdersOf(request.question) :
        \E found \in {_find_relevant_context_optimized(
                          collection, request.file_id, request.question,
                          nearness, set_order, DefaultMaxChars)} :
          /\ pc' = IF found.raised THEN "retrieve_raised" ELSE "retrieve_done"
          /\ vector_results' = found.vector_results
          /\ query_terms' = found.expanded_terms
          /\ keyword_scores' = found.keyword_scores
          /\ metadata_scores' = found.metadata_scores
          /\ search_results' = found.search_results
          /\ context' = found.context
          /\ response' = [relevant_context |-> found.relevant_context,
                          results_for_logging |-> found.results_for_logging,
                          analysis_dict |-> found.analysis_dict]
    /\ UNCHANGED <<request, collection, uploads, conversation_store, llm_calls,
                   query_log>>

Next_Retrieve == Retrieve

SpecRetrieve == Init_Retrieve /\ [][Next_Retrieve]_vars

\* No term of the financial dictionary, canonical or synonym, is a word (or
\* a group of words) of the question
NoDictionaryTerm(question) ==
    \A i \in DOMAIN term_to_canonical :
        ~WholeWord(term_to_canonical[i].term, Lower(question))

\* C30: the lexical stage is fed only the analyzer's expanded_terms: when
\* the question contains no term or synonym of the financial dictionary,
\* expanded_terms is empty and every result returned by the hybrid search
\* for that question has keyword_score = 0, so its final score is
\* 0.60 * vector_score + 0.10 * metadata_score.
C30_NoTermNoKeywordScore ==
    pc = "retrieve_done" /\ NoDictionaryTerm(request.question) =>
        /\ query_terms = <<>>
        /\ \A i \in 1..Len(search_results) :
              /\ search_results[i].keyword_score = 0
              /\ search_results[i].score
                     = VECTOR_WEIGHT * search_results[i].vector_score
                       + METADATA_WEIGHT * search_results[i].metadata_score

\* The question "a" has no term of the dictionary, and the search has
\* returned two chunks, one of them the text "a" itself
C30_Witness ==
    /\ pc = "retrieve_done"
    /\ request.question = <<"a">>
    /\ NoDictionaryTerm(request.question)
    /\ Len(search_results) = 2
    /\ \E i \in 1..Len(search_results) : search_results[i].text = <<"a">>

\* The question "sales" is a term of the dictionary, and a chunk that has
\* the word got a keyword score
C30_TermGivesKeywordScore ==
    /\ pc = "retrieve_done"
    /\ request.question = Sales
    /\ \E i \in 1..Len(search_results) : search_results[i].keyword_score > 0

============================================================================
